---- MODULE Spec2Model ----
(***************************************************************************)
(* HMS analytics backend (src/backend/main.py): the CSV cleaning pipeline  *)
(* load_and_clean_data and the insight engine get_insights, as a state     *)
(* machine over one backing file and the HTTP responses of the two         *)
(* analytics endpoints.  tie_order is the one thing the code leaves to the *)
(* installed numpy: how its default sort, which is not stable, orders      *)
(* equal values.                                                           *)
(*                                                                         *)
(* Representation.  A cell is an option: <<>> is pandas' NaN/NaT/None and  *)
(* <<v>> a present value v.  A table (the CSV file, the DataFrame) is a    *)
(* record [cols, rows]; every row is a function from the column names to   *)
(* cells, so that reading a column that is not in cols is the KeyError of  *)
(* the code.  Text that the code inspects character by character (the age  *)
(* token) is a sequence of one-character strings.  Ages are exact numbers  *)
(* in units of 1/Scale year, revenues are integers.                        *)
(***************************************************************************)
EXTENDS Integers, Sequences, FiniteSets, TLC

VARIABLES file, df, response, calls, tie_order

vars == <<file, df, response, calls, tie_order>>

(***************************************************************************)
(* Generic helpers                                                         *)
(***************************************************************************)
NaN == <<>>

Some(v) == <<v>>

isna(c) == c = NaN

notna(c) == c # NaN

Range(s) == {s[i] : i \in 1..Len(s)}

\* the sequence f itself, built element by element
Tuple(f) == f \o <<>>

RECURSIVE SumSeq(_)
SumSeq(s) == IF s = <<>> THEN 0 ELSE Head(s) + SumSeq(Tail(s))

RECURSIVE Pow10(_)
Pow10(k) == IF k = 0 THEN 1 ELSE 10 * Pow10(k - 1)

\* s[a..b], empty when a > b
Slice(s, a, b) == IF a > b THEN <<>> ELSE SubSeq(s, a, b)

SelectIdx(n, P(_)) == SelectSeq(Tuple([i \in 1..n |-> i]), P)

\* the elements of s at the positions listed in idx
Take(s, idx) == Tuple([k \in 1..Len(idx) |-> s[idx[k]]])

\* a head that cuts nothing off
head_all(s, n) == s

\* first n elements: Series.head(n)
head(s, n) == IF Len(s) <= n THEN s ELSE SubSeq(s, 1, n)

(***************************************************************************)
(* Stable sort of a sequence by a strict "comes before" relation: elements *)
(* that neither comes before the other keep their order (numpy's sort on   *)
(* the short arrays of this model is an insertion sort, which is stable).  *)
(***************************************************************************)
\* the sequence v rearranged so that the element of rank k - 1 stands at k
Place(v, ranks) ==
    Tuple([k \in 1..Len(v) |-> v[CHOOSE i \in 1..Len(v) : ranks[i] = k - 1]])

\* the rank of every element of v: how many elements come before it
Ranks(v, Before(_, _)) ==
    Tuple([i \in 1..Len(v) |->
             Cardinality({j \in 1..Len(v) :
                 \/ Before(v[j], v[i])
                 \/ (~Before(v[i], v[j]) /\ j < i)})])

SortTuple(v, Before(_, _)) == Place(v, Ranks(v, Before))

StableSort(s, Before(_, _)) == SortTuple(Tuple(s), Before)

(***************************************************************************)
(* Text                                                                    *)
(***************************************************************************)
Digits == <<"0", "1", "2", "3", "4", "5", "6", "7", "8", "9">>

IsDigit(c) == c \in Range(Digits)

DigitVal(c) == (CHOOSE i \in 1..10 : Digits[i] = c) - 1

IsSpace(c) == c = " "

\* str.upper() on the letters that occur in the tokens of this model
UpperChar(c) ==
    CASE c = "y" -> "Y"
      [] c = "m" -> "M"
      [] c = "a" -> "A"
      [] c = "b" -> "B"
      [] OTHER -> c

upper(s) == Tuple([i \in 1..Len(s) |-> UpperChar(s[i])])

RECURSIVE lstrip(_)
lstrip(s) == IF s # <<>> /\ IsSpace(Head(s)) THEN lstrip(Tail(s)) ELSE s

RECURSIVE rstrip(_)
rstrip(s) ==
    IF s # <<>> /\ IsSpace(s[Len(s)]) THEN rstrip(SubSeq(s, 1, Len(s) - 1)) ELSE s

strip(s) == rstrip(lstrip(s))

\* the length of the longest run of digits of s that starts at position i
RECURSIVE DigitRun(_, _)
DigitRun(s, i) ==
    IF i <= Len(s) /\ IsDigit(s[i]) THEN 1 + DigitRun(s, i + 1) ELSE 0

RECURSIVE DigitsValue(_)
DigitsValue(s) ==
    IF s = <<>> THEN 0
    ELSE 10 * DigitsValue(SubSeq(s, 1, Len(s) - 1)) + DigitVal(s[Len(s)])

(***************************************************************************)
(* Numbers.  An age is an integer count of 1/Scale year: a token with one  *)
(* decimal digit, its twelfth (months) and the mean of two such values are *)
(* all whole numbers of units.                                             *)
(***************************************************************************)
Scale == 12 * 20

Years(n) == n * Scale

\* float(text) of "<digits>" or "<digits>.<digits>", in units
FloatOf(intDigits, fracDigits) ==
    DigitsValue(intDigits) * Scale
      + (DigitsValue(fracDigits) * Scale) \div Pow10(Len(fracDigits))

\* a parse_age that takes every token with an M for months
parse_age_months_despite_Y(age_str) ==
    IF isna(age_str) \/ strip(age_str[1]) = <<>> THEN NaN
    ELSE LET s == upper(strip(age_str[1]))
             starts == {i \in 1..Len(s) : IsDigit(s[i])}
         IN IF starts = {} THEN NaN
            ELSE LET i == CHOOSE k \in starts : \A j \in starts : k <= j
                     n == DigitRun(s, i)
                     hasFrac == /\ i + n + 1 <= Len(s)
                                /\ s[i + n] = "."
                                /\ IsDigit(s[i + n + 1])
                     m == IF hasFrac THEN DigitRun(s, i + n + 1) ELSE 0
                     val == FloatOf(SubSeq(s, i, i + n - 1),
                                    Slice(s, i + n + 1, i + n + m))
                 IN IF "M" \in Range(s)
                    THEN Some(val \div 12)
                    ELSE Some(val)

(***************************************************************************)
(* parse_age                                                               *)
(***************************************************************************)
parse_age(age_str) ==
    IF isna(age_str) \/ strip(age_str[1]) = <<>> THEN NaN
    ELSE LET s == upper(strip(age_str[1]))
             starts == {i \in 1..Len(s) : IsDigit(s[i])}
         IN IF starts = {} THEN NaN
            ELSE LET i == CHOOSE k \in starts : \A j \in starts : k <= j
                     n == DigitRun(s, i)
                     hasFrac == /\ i + n + 1 <= Len(s)
                                /\ s[i + n] = "."
                                /\ IsDigit(s[i + n + 1])
                     m == IF hasFrac THEN DigitRun(s, i + n + 1) ELSE 0
                     val == FloatOf(SubSeq(s, i, i + n - 1),
                                    Slice(s, i + n + 1, i + n + m))
                 IN IF "M" \in Range(s) /\ "Y" \notin Range(s)
                    THEN Some(val \div 12)
                    ELSE Some(val)

(***************************************************************************)
(* Tables: the CSV file as pd.read_csv returns it, and the DataFrame       *)
(***************************************************************************)
Column(t, name) == Tuple([i \in 1..Len(t.rows) |-> t.rows[i][name]])

\* df[name] = series
SetColumn(t, name, series) ==
    [cols |-> t.cols \cup {name},
     rows |-> Tuple([i \in 1..Len(t.rows) |-> (name :> series[i]) @@ t.rows[i]])]

\* df[name] = scalar
SetColumnScalar(t, name, v) ==
    SetColumn(t, name, Tuple([i \in 1..Len(t.rows) |-> Some(v)]))

\* df.rename(columns=f) for a mapping f that is one-to-one on t.cols
RenameColumns(t, f(_)) ==
    [cols |-> {f(c) : c \in t.cols},
     rows |-> Tuple([i \in 1..Len(t.rows) |->
                 [n \in {f(c) : c \in t.cols} |->
                     t.rows[i][CHOOSE c \in t.cols : f(c) = n]] @@ <<>>])]

fillna(series, v) ==
    Tuple([i \in 1..Len(series) |-> IF isna(series[i]) THEN Some(v) ELSE series[i]])

\* the present values of a series, in row order
dropna(series) == SelectSeq(series, notna)

\* str.strip() of a header cell, on the header names of this model
StripName(c) ==
    CASE c = "Practitioner " -> "Practitioner"
      [] c = " Age" -> "Age"
      [] OTHER -> c

column_mapping ==
    [Practitioner |-> "doctor_name",
     PractitionerName |-> "doctor_display_name",
     MedicalDepartment |-> "department",
     AppointmentDateTime |-> "visit_datetime",
     PaidAmount |-> "revenue",
     Company |-> "branch",
     Gender |-> "gender",
     Status |-> "status",
     ModeOfPayment |-> "payment_mode",
     Patient |-> "patient_id",
     PatientName |-> "patient_name",
     Age |-> "age_raw",
     DateOfBirth |-> "dob",
     ID |-> "token_id",
     PostingDate |-> "posting_date",
     Time |-> "appointment_time",
     BaseGrandTotal |-> "base_total",
     AdvancePaid |-> "advance_paid"]

\* the key of column_mapping for a header name (the name without its
\* blanks and its "&"), or the name itself when it has none
MappingKey(c) ==
    CASE c = "Practitioner" -> "Practitioner"
      [] c = "Practitioner  Name" -> "PractitionerName"
      [] c = "Medical Department" -> "MedicalDepartment"
      [] c = "Appointment Date & Time" -> "AppointmentDateTime"
      [] c = "Paid Amount" -> "PaidAmount"
      [] c = "Company" -> "Company"
      [] c = "Gender" -> "Gender"
      [] c = "Status" -> "Status"
      [] c = "Mode of Payment" -> "ModeOfPayment"
      [] c = "Patient" -> "Patient"
      [] c = "Patient Name" -> "PatientName"
      [] c = "Age" -> "Age"
      [] c = "Date Of Birth" -> "DateOfBirth"
      [] c = "ID" -> "ID"
      [] c = "Posting Date" -> "PostingDate"
      [] c = "Time" -> "Time"
      [] c = "Base Grand Total" -> "BaseGrandTotal"
      [] c = "Advance Paid" -> "AdvancePaid"
      [] OTHER -> ""

\* existing_cols: only the columns that exist are renamed
existing_cols(c) ==
    IF MappingKey(c) \in DOMAIN column_mapping
    THEN column_mapping[MappingKey(c)] ELSE c

(***************************************************************************)
(* Dates.  A date token of the file is [kind |-> "dmy", a, b, yy, hh, mi]  *)
(* for the text "a-b-yy hh:mi", or [kind |-> "text"] for text that is no   *)
(* date.  A Timestamp is [year, month, day, hour, minute].                 *)
(***************************************************************************)
IsLeap(y) == (y % 4 = 0 /\ y % 100 # 0) \/ y % 400 = 0

DaysInMonth(y, m) ==
    CASE m \in {4, 6, 9, 11} -> 30
      [] m = 2 -> IF IsLeap(y) THEN 29 ELSE 28
      [] OTHER -> 31

\* pd.to_datetime(x, dayfirst=True, errors='coerce') of one cell: the first
\* number is the day, a two-digit year is of this century; what is no
\* calendar date or time becomes NaT
to_datetime(cell) ==
    IF isna(cell) THEN NaN
    ELSE LET tok == cell[1]
         IN IF tok.kind # "dmy" THEN NaN
            ELSE LET y == 2000 + tok.yy
                 IN IF /\ tok.b \in 1..12
                       /\ tok.a \in 1..DaysInMonth(y, tok.b)
                       /\ tok.hh \in 0..23
                       /\ tok.mi \in 0..59
                    THEN Some([year |-> y, month |-> tok.b, day |-> tok.a,
                               hour |-> tok.hh, minute |-> tok.mi])
                    ELSE NaN

(***************************************************************************)
(* Numbers of the file.  pd.to_numeric(x, errors='coerce') of one cell: an *)
(* optionally signed run of digits is that integer, any other text of this *)
(* model (which holds no decimal literal) is NaN.                          *)
(***************************************************************************)
\* a parser that knows no sign: only a run of digits is a number
to_numeric_unsigned(cell) ==
    IF isna(cell) THEN NaN
    ELSE LET s == strip(cell[1])
         IN IF s # <<>> /\ DigitRun(s, 1) = Len(s) THEN Some(DigitsValue(s)) ELSE NaN

to_numeric(cell) ==
    IF isna(cell) THEN NaN
    ELSE LET s == strip(cell[1])
             neg == s # <<>> /\ Head(s) = "-"
             body == IF neg THEN Tail(s) ELSE s
         IN IF body # <<>> /\ DigitRun(body, 1) = Len(body)
            THEN Some(IF neg THEN 0 - DigitsValue(body) ELSE DigitsValue(body))
            ELSE NaN

\* a median that takes the lower of the two middle values
median_lower_middle(series) ==
    LET v == StableSort(dropna(series), LAMBDA x, y : x[1] < y[1])
        n == Len(v)
    IN IF n = 0 THEN NaN ELSE v[(n + 1) \div 2]

(***************************************************************************)
(* Series.median(): NaN of an empty series, else the middle value, or the  *)
(* mean of the two middle values                                           *)
(***************************************************************************)
median(series) ==
    LET v == StableSort(dropna(series), LAMBDA x, y : x[1] < y[1])
        n == Len(v)
    IN IF n = 0 THEN NaN
       ELSE IF n % 2 = 1 THEN v[(n + 1) \div 2]
       ELSE Some((v[n \div 2][1] + v[n \div 2 + 1][1]) \div 2)

(***************************************************************************)
(* load_and_clean_data, after the file was found                           *)
(***************************************************************************)
\* 1., 2.: header cells stripped, then renamed
CleanColumns(t) ==
    RenameColumns(RenameColumns(t, StripName), existing_cols)

\* 3.: dates
ParseDates(t) ==
    LET t1 == IF "visit_datetime" \in t.cols
              THEN SetColumn(t, "visit_datetime",
                     [i \in 1..Len(t.rows) |-> to_datetime(t.rows[i]["visit_datetime"])])
              ELSE t
    IN IF "dob" \in t1.cols
       THEN SetColumn(t1, "dob",
              [i \in 1..Len(t1.rows) |-> to_datetime(t1.rows[i]["dob"])])
       ELSE t1

\* 4.: age
CleanAge(t) ==
    IF "age_raw" \in t.cols
    THEN LET age == [i \in 1..Len(t.rows) |-> parse_age(t.rows[i]["age_raw"])]
             median_age == median(age)
         IN IF notna(median_age)
            THEN SetColumn(t, "age", fillna(age, median_age[1]))
            ELSE SetColumn(t, "age", fillna(age, 0))
    ELSE SetColumnScalar(t, "age", 0)

CoerceNumeric(t, name) ==
    SetColumn(t, name,
        fillna([i \in 1..Len(t.rows) |-> to_numeric(t.rows[i][name])], 0))

\* 5.: numeric columns
CleanNumeric(t) ==
    LET t1 == IF "revenue" \in t.cols THEN CoerceNumeric(t, "revenue")
              ELSE SetColumnScalar(t, "revenue", 0)
        t2 == IF "base_total" \in t1.cols THEN CoerceNumeric(t1, "base_total")
              ELSE t1
    IN IF "advance_paid" \in t2.cols THEN CoerceNumeric(t2, "advance_paid")
       ELSE t2

\* a default given to an absent column only, not to a null cell
FillDefaultAbsentOnly(t, name, default) ==
    IF name \in t.cols THEN t
    ELSE SetColumnScalar(t, name, default)

\* df[name] = df.get(name, pd.Series([default] * len(df))).fillna(default)
FillDefault(t, name, default) ==
    IF name \in t.cols THEN SetColumn(t, name, fillna(Column(t, name), default))
    ELSE SetColumnScalar(t, name, default)

\* 6.: missing values
FillMissing(t) ==
    LET t1 == FillDefault(t, "doctor_name", "Unknown Doctor")
        t2 == FillDefault(t1, "department", "General")
        t3 == FillDefault(t2, "branch", "Unknown Branch")
        t4 == FillDefault(t3, "gender", "Unknown")
        t5 == FillDefault(t4, "payment_mode", "Unknown")
        t6 == FillDefault(t5, "status", "Unknown")
    IN FillDefault(t6, "patient_name", "Unknown")

CleanTable(t) == FillMissing(CleanNumeric(CleanAge(ParseDates(CleanColumns(t)))))

\* the DataFrame, or the exception raised
load_and_clean_data(f) ==
    IF ~f.exists
    THEN [raised |-> "FileNotFoundError: Data file not found", df |-> NaN]
    ELSE [raised |-> "", df |-> Some(CleanTable([cols |-> f.cols, rows |-> f.rows]))]

(***************************************************************************)
(* pandas aggregations.  A result Series is a sequence of entries          *)
(* [label, value] in index order.                                          *)
(***************************************************************************)
Entry(l, v) == [label |-> l, value |-> v]

labels(s) == Tuple([i \in 1..Len(s) |-> s[i].label])

\* the values of the first five entries only
values_first5(s) ==
    Tuple([i \in 1..(IF Len(s) < 5 THEN Len(s) ELSE 5) |-> s[i].value])

values(s) == Tuple([i \in 1..Len(s) |-> s[i].value])

\* the distinct present values of a series, in the order of first appearance
unique(series) ==
    LET n == Len(series)
        first(i) == notna(series[i]) /\ \A j \in 1..(i - 1) : series[j] # series[i]
        idx == SelectIdx(n, first)
    IN Tuple([k \in 1..Len(idx) |-> series[idx[k]][1]])

nunique(series) == Len(unique(series))

CountOf(series, v) == Cardinality({i \in 1..Len(series) : series[i] = Some(v)})

Reverse(s) == Tuple([k \in 1..Len(s) |-> s[Len(s) + 1 - k]])

\* the ways the installed sort orders equal values: as they stood, or not
TieOrders == {"first_seen", "last_seen"}

\* a sort whose treatment of ties changes from one call to the next
TieViewPerCall(s) == IF calls % 2 = 0 THEN s ELSE Reverse(s)

\* the input of the sort as the installed sort treats its ties
TieView(s) == IF tie_order = "first_seen" THEN s ELSE Reverse(s)

\* Series.sort_values(ascending=False) / sort_values() on integer values,
\* with kind='quicksort' (the default): equal values in the installed order
sort_values_desc(s) == StableSort(TieView(s), LAMBDA a, b : a.value > b.value)

sort_values_asc(s) == StableSort(TieView(s), LAMBDA a, b : a.value < b.value)

\* the same on means, which are fractions [num, den] with den > 0
MeanLt(a, b) == a.num * b.den < b.num * a.den

sort_means_desc(s) == StableSort(TieView(s), LAMBDA a, b : MeanLt(b.value, a.value))

sort_means_asc(s) == StableSort(TieView(s), LAMBDA a, b : MeanLt(a.value, b.value))

\* Series.value_counts(): NaN dropped, one entry per distinct value in the
\* order of first appearance, then sorted by count, largest first
value_counts(series) ==
    LET u == unique(series)
    IN sort_values_desc(Tuple([k \in 1..Len(u) |-> Entry(u[k], CountOf(series, u[k]))]))

\* str.__lt__ on the names of this model (code point order)
SortedNames ==
    <<"Cardiology", "Clifton", "Defence", "Dental", "Dr. Ali", "Dr. Bano",
      "Dr. Dar", "Dr. Faiz", "Dr. Gul", "Dr. Hadi", "Dr. Khan", "Dr. Omar",
      "Dr. Raza", "Dr. Syed", "Dr. Zaid", "ENT", "Eye", "Gastro", "General",
      "Gulshan", "Johar", "Korangi", "Landhi", "Lyari", "Malir",
      "Nazimabad", "Neurology", "Oncology", "Orangi", "Ortho", "Peds",
      "Saddar", "Skin", "Unknown Branch", "Unknown Doctor", "Urology">>

NameRank(s) == CHOOSE i \in 1..Len(SortedNames) : SortedNames[i] = s

StrLt(a, b) == NameRank(a) < NameRank(b)

\* the group keys of df.groupby(key): the distinct keys, sorted
group_keys(t, key) == StableSort(unique(Column(t, key)), StrLt)

\* the present values of column col in the rows whose key column holds k
GroupValues(t, key, k, col) ==
    LET idx == SelectIdx(Len(t.rows),
                 LAMBDA i : t.rows[i][key] = Some(k) /\ notna(t.rows[i][col]))
    IN Tuple([j \in 1..Len(idx) |-> t.rows[idx[j]][col][1]])

\* df.groupby(key)[col].sum()
groupby_sum(t, key, col) ==
    LET ks == group_keys(t, key)
    IN Tuple([j \in 1..Len(ks) |->
                Entry(ks[j], SumSeq(GroupValues(t, key, ks[j], col)))])

\* df.groupby(key)[col].mean()
groupby_mean(t, key, col) ==
    LET ks == group_keys(t, key)
    IN Tuple([j \in 1..Len(ks) |->
                Entry(ks[j], [num |-> SumSeq(GroupValues(t, key, ks[j], col)),
                              den |-> Len(GroupValues(t, key, ks[j], col))])])

\* df.groupby(key)[col].nunique()
groupby_nunique(t, key, col) ==
    LET ks == group_keys(t, key)
    IN Tuple([j \in 1..Len(ks) |->
                Entry(ks[j], Cardinality(Range(GroupValues(t, key, ks[j], col))))])

\* pd.cut(series, bins, labels, right=False): the label of the interval
\* [bins[k], bins[k+1]) that holds the value, NaN when none does
cut(series, bins, lbls) ==
    Tuple([i \in 1..Len(series) |->
        IF isna(series[i]) THEN NaN
        ELSE LET hit == {k \in 1..Len(lbls) :
                           bins[k] <= series[i][1] /\ series[i][1] < bins[k + 1]}
             IN IF hit = {} THEN NaN ELSE Some(lbls[CHOOSE k \in hit : TRUE])])

\* value_counts() of a categorical series: every category has an entry, 0
\* for one that does not occur; sorted by count, largest first
value_counts_categorical(series, categories) ==
    sort_values_desc(Tuple([k \in 1..Len(categories) |->
                        Entry(categories[k], CountOf(series, categories[k]))]))

\* a sort_index() that leaves the series in the order of its counts
sort_index_categorical_skipped(s, categories) == s

\* sort_index() of a series indexed by categories: category order
sort_index_categorical(s, categories) ==
    LET rank(l) == CHOOSE k \in 1..Len(categories) : categories[k] = l
    IN StableSort(s, LAMBDA a, b : rank(a.label) < rank(b.label))

\* sort_index() of a series indexed by integers
sort_index(s) == StableSort(s, LAMBDA a, b : a.label < b.label)

\* a reindex that keeps only the labels the series has
reindex_present_only(s, order) ==
    SelectSeq(Tuple([k \in 1..Len(order) |->
                  LET hit == {i \in 1..Len(s) : s[i].label = order[k]}
                  IN Entry(order[k],
                           IF hit = {} THEN 0 ELSE s[CHOOSE i \in hit : TRUE].value)]),
              LAMBDA e : e.value # 0)

\* reindex(order).fillna(0)
reindex_fill0(s, order) ==
    Tuple([k \in 1..Len(order) |->
        LET hit == {i \in 1..Len(s) : s[i].label = order[k]}
        IN Entry(order[k], IF hit = {} THEN 0 ELSE s[CHOOSE i \in hit : TRUE].value)])

\* round(num / den, 1) in tenths, for num >= 0 and den > 0: the nearest
\* tenth, the even one of two equally near
round1(num, den) ==
    LET q == (10 * num) \div den
        r == (10 * num) % den
    IN IF 2 * r < den THEN q
       ELSE IF 2 * r > den THEN q + 1
       ELSE IF q % 2 = 0 THEN q ELSE q + 1

(***************************************************************************)
(* Calendar                                                                *)
(***************************************************************************)
RECURSIVE DaysBeforeYear(_)
DaysBeforeYear(y) ==
    IF y <= 2000 THEN 0
    ELSE DaysBeforeYear(y - 1) + (IF IsLeap(y - 1) THEN 366 ELSE 365)

RECURSIVE DaysBeforeMonth(_, _)
DaysBeforeMonth(y, m) ==
    IF m <= 1 THEN 0 ELSE DaysBeforeMonth(y, m - 1) + DaysInMonth(y, m - 1)

days_order ==
    <<"Monday", "Tuesday", "Wednesday", "Thursday", "Friday", "Saturday", "Sunday">>

\* Timestamp.day_name(): 1 January 2000 was a Saturday
day_name(ts) ==
    days_order[((DaysBeforeYear(ts.year) + DaysBeforeMonth(ts.year, ts.month)
                   + ts.day - 1 + 5) % 7) + 1]

\* the month of the year of a timestamp, whatever its year
MonthOfYear(ts) == ts.month - 1

\* the months since year 0 of a timestamp: the month bin of resample('M')
MonthIndex(ts) == ts.year * 12 + (ts.month - 1)

Digit(n) == Digits[n + 1]

\* strftime('%Y-%m') of the month bin, as characters
strftime_Ym(mi) ==
    LET y == mi \div 12
        m == (mi % 12) + 1
    IN <<Digit(y \div 1000), Digit((y \div 100) % 10), Digit((y \div 10) % 10),
         Digit(y % 10), "-", Digit(m \div 10), Digit(m % 10)>>

\* f"{int(h):02d}:00", as characters
FormatHour(h) == <<Digit(h \div 10), Digit(h % 10), ":", "0", "0">>

\* the rows with a timestamp: resample drops the rows whose index is NaT
TimedRows(t) ==
    SelectSeq(t.rows, LAMBDA r : notna(r["visit_datetime"]))

\* resample('M'): one bin per calendar month from the first to the last
\* month that holds a row, empty months included; agg(rows of the bin)
resample_M(t, agg(_)) ==
    LET rows == TimedRows(t)
        ms == {MonthIndex(rows[i]["visit_datetime"][1]) : i \in 1..Len(rows)}
        lo == CHOOSE m \in ms : \A x \in ms : m <= x
        hi == CHOOSE m \in ms : \A x \in ms : x <= m
    IN IF ms = {} THEN <<>>
       ELSE Tuple([k \in 1..(hi - lo + 1) |->
               Entry(lo + k - 1,
                     agg(SelectSeq(rows, LAMBDA r :
                           MonthIndex(r["visit_datetime"][1]) = lo + k - 1)))])

(***************************************************************************)
(* get_insights: the catalog.  Every step takes the DataFrame and gives    *)
(* [raised, df, out]: the exception it raises ("" for none), the DataFrame *)
(* it leaves, and the insights it appends (one or none).                   *)
(***************************************************************************)
Insight(title, description, chart_type, s) ==
    [title |-> title, description |-> description, chart_type |-> chart_type,
     chart_data |-> [labels |-> labels(s), values |-> values(s)]]

Emit(t, insight) == [raised |-> "", df |-> t, out |-> <<insight>>]

Omit(t) == [raised |-> "", df |-> t, out |-> <<>>]

Raise(t, e) == [raised |-> e, df |-> t, out |-> <<>>]

\* df[df[col] == v]
RowsWhere(t, P(_)) == [cols |-> t.cols, rows |-> SelectSeq(t.rows, P)]

\* df['visit_datetime'].notna().any()
any_datetime(t) == \E i \in 1..Len(t.rows) : notna(t.rows[i]["visit_datetime"])

Insight1(t) ==
    Emit(t, Insight(<<"Top 5 Busiest Doctors">>,
                    <<"Doctors with the highest patient volume.">>, "bar",
                    head(value_counts(Column(t, "doctor_name")), 5)))

Insight2(t) ==
    Emit(t, Insight(<<"Patient Visits by Department">>,
                    <<"Distribution of cases across different medical departments.">>,
                    "pie", value_counts(Column(t, "department"))))

\* Revenue by Department sorted the other way round
Insight3Ascending(t) ==
    Emit(t, Insight(<<"Revenue by Department">>,
                    <<"Total revenue generated by each department.">>, "bar",
                    sort_values_asc(groupby_sum(t, "department", "revenue"))))

Insight3(t) ==
    Emit(t, Insight(<<"Revenue by Department">>,
                    <<"Total revenue generated by each department.">>, "bar",
                    sort_values_desc(groupby_sum(t, "department", "revenue"))))

Insight4(t) ==
    Emit(t, Insight(<<"Top 10 Doctors by Avg Revenue">>,
                    <<"Doctors with the highest average revenue per visit.">>, "bar",
                    head(sort_means_desc(groupby_mean(t, "doctor_name", "revenue")), 10)))

age_bins == <<0, Years(18), Years(30), Years(50), Years(70), Years(150)>>

age_labels == <<"0-18", "19-30", "31-50", "51-70", "70+">>

Insight5(t) ==
    LET t1 == SetColumn(t, "age_group", cut(Column(t, "age"), age_bins, age_labels))
        age_dist == sort_index_categorical(
                        value_counts_categorical(Column(t1, "age_group"), age_labels),
                        age_labels)
    IN Emit(t1, Insight(<<"Patient Age Group Distribution">>,
                        <<"Demographic breakdown of patients by age groups.">>, "bar",
                        age_dist))

Insight6(t) ==
    Emit(t, Insight(<<"Patient Gender Distribution">>,
                    <<"Split between Male and Female patients.">>, "pie",
                    value_counts(Column(t, "gender"))))

Insight7(t) ==
    Emit(t, Insight(<<"Visits by Branch (Location)">>,
                    <<"Patient volume across different hospital branches.">>, "bar",
                    head(value_counts(Column(t, "branch")), 10)))

Insight8(t) ==
    Emit(t, Insight(<<"Revenue by Branch">>,
                    <<"Total revenue generated by each branch.">>, "bar",
                    sort_values_desc(groupby_sum(t, "branch", "revenue"))))

Insight9(t) ==
    Emit(t, Insight(<<"Top Payment Modes">>,
                    <<"Most common methods of payment.">>, "bar",
                    head(value_counts(Column(t, "payment_mode")), 5)))

Insight10(t) ==
    IF "visit_datetime" \notin t.cols THEN Raise(t, "KeyError: 'visit_datetime'")
    ELSE IF any_datetime(t)
    THEN LET monthly_visits == resample_M(t, Len)
         IN Emit(t, Insight(<<"Monthly Patient Visits Trend">>,
                            <<"Trend of patient visits over time.">>, "line",
                            [k \in 1..Len(monthly_visits) |->
                               Entry(strftime_Ym(monthly_visits[k].label),
                                     monthly_visits[k].value)]))
    ELSE Omit(t)

Insight11(t) ==
    IF "visit_datetime" \notin t.cols THEN Raise(t, "KeyError: 'visit_datetime'")
    ELSE IF any_datetime(t)
    THEN LET t1 == SetColumn(t, "day_of_week",
                     [i \in 1..Len(t.rows) |->
                        IF isna(t.rows[i]["visit_datetime"]) THEN NaN
                        ELSE Some(day_name(t.rows[i]["visit_datetime"][1]))])
             day_counts == reindex_fill0(value_counts(Column(t1, "day_of_week")),
                                         days_order)
         IN Emit(t1, Insight(<<"Visits by Day of Week">>,
                             <<"Patient volume distribution across the week.">>, "bar",
                             day_counts))
    ELSE Omit(t)

Insight12(t) ==
    Emit(t, Insight(<<"Appointment Status Distribution">>,
                    <<"Breakdown of appointment statuses (e.g., Open, Closed).">>, "bar",
                    head(value_counts(Column(t, "status")), 5)))

rev_bins == <<0, 500, 1000, 2000, 5000, 10000>>

rev_labels == <<"0-500", "501-1000", "1001-2000", "2001-5000", "5000+">>

Insight13(t) ==
    LET t1 == SetColumn(t, "rev_group", cut(Column(t, "revenue"), rev_bins, rev_labels))
        rev_dist == sort_index_categorical(
                        value_counts_categorical(Column(t1, "rev_group"), rev_labels),
                        rev_labels)
    IN Emit(t1, Insight(<<"Revenue per Visit Distribution">>,
                        <<"Distribution of revenue amounts collected per visit.">>, "bar",
                        rev_dist))

\* the unpaid visits taken from the revenue group that Insight 13 added
Insight14ByRevGroup(t) ==
    IF "rev_group" \notin t.cols THEN Raise(t, "KeyError: 'rev_group'")
    ELSE LET zero_pay == RowsWhere(t, LAMBDA r : /\ r["rev_group"] = Some("0-500")
                                                 /\ r["revenue"] = Some(0))
         IN Emit(t, Insight(<<"Zero-Payment Visits by Department">>,
                            <<"Departments with the most free or unpaid visits.">>, "bar",
                            head(value_counts(Column(zero_pay, "department")), 10)))

Insight14(t) ==
    LET zero_pay == RowsWhere(t, LAMBDA r : r["revenue"] = Some(0))
    IN Emit(t, Insight(<<"Zero-Payment Visits by Department">>,
                       <<"Departments with the most free or unpaid visits.">>, "bar",
                       head(value_counts(Column(zero_pay, "department")), 10)))

Insight15(t) ==
    IF "patient_id" \in t.cols
    THEN LET visit_counts == value_counts(Column(t, "patient_id"))
             repeat_patients == Len(SelectSeq(visit_counts, LAMBDA e : e.value > 1))
             single_visit_patients == Len(SelectSeq(visit_counts, LAMBDA e : e.value = 1))
         IN Emit(t, Insight(<<"Patient Retention Rate">>,
                    <<"Proportion of patients with repeat visits vs single visits.">>,
                    "pie",
                    <<Entry("Repeat Patients", repeat_patients),
                      Entry("One-time Patients", single_visit_patients)>>))
    ELSE Omit(t)

Insight16(t) ==
    IF "visit_datetime" \notin t.cols THEN Raise(t, "KeyError: 'visit_datetime'")
    ELSE IF any_datetime(t)
    THEN LET t1 == SetColumn(t, "hour",
                     [i \in 1..Len(t.rows) |->
                        IF isna(t.rows[i]["visit_datetime"]) THEN NaN
                        ELSE Some(t.rows[i]["visit_datetime"][1].hour)])
             hour_counts == sort_index(value_counts(Column(t1, "hour")))
         IN Emit(t1, Insight(<<"Peak Visiting Hours">>,
                             <<"Patient traffic throughout the day.">>, "line",
                             [k \in 1..Len(hour_counts) |->
                                Entry(FormatHour(hour_counts[k].label),
                                      hour_counts[k].value)]))
    ELSE Omit(t)

\* the values are tenths of a year: round(v, 1) of the mean age in years
Insight17(t) ==
    LET avg_age_dept == sort_means_asc(groupby_mean(t, "department", "age"))
    IN Emit(t, Insight(<<"Average Patient Age by Department">>,
                       <<"Average age of patients visiting each department.">>, "bar",
                       [k \in 1..Len(avg_age_dept) |->
                          Entry(avg_age_dept[k].label,
                                round1(avg_age_dept[k].value.num,
                                       avg_age_dept[k].value.den * Scale))]))

\* value_counts().idxmax(): the label of the first largest count
idxmax(s) ==
    LET v == Tuple(s)
    IN v[CHOOSE i \in 1..Len(v) :
           /\ \A j \in 1..Len(v) : v[j].value <= v[i].value
           /\ \A j \in 1..(i - 1) : v[j].value < v[i].value].label

\* df['department'].value_counts().idxmax(), the value that Insight 18
\* assigns to the local variable top_dept
top_dept(t) == LET counts == value_counts(Column(t, "department")) IN idxmax(counts)

\* the busiest department not scoped to: every row
InTopDeptUnscoped(t, d) == t

\* df[df['department'] == top_dept]
InTopDept(t, d) == RowsWhere(t, LAMBDA r : r["department"] = Some(d))

Insight18(t) ==
    IF value_counts(Column(t, "department")) = <<>>
    THEN Raise(t, "ValueError: attempt to get argmax of an empty sequence")
    ELSE Emit(t, Insight(<<"Gender Distribution in ", top_dept(t)>>,
                         <<"Gender breakdown for the busiest department (",
                           top_dept(t), ").">>,
                         "pie", value_counts(Column(InTopDept(t, top_dept(t)), "gender"))))

\* Insight 19 reads the local variable top_dept that Insight 18 assigned:
\* td is its value, NaN while it is unassigned
Insight19(t, td) ==
    IF isna(td)
    THEN Raise(t, "UnboundLocalError: local variable 'top_dept' referenced before assignment")
    ELSE Emit(t, Insight(<<"Top Doctors in ", td[1]>>,
                         <<"Busiest doctors in ", td[1], ".">>, "bar",
                         head(value_counts(Column(InTopDept(t, td[1]), "doctor_name")), 5)))

Insight20(t) ==
    IF "visit_datetime" \notin t.cols THEN Raise(t, "KeyError: 'visit_datetime'")
    ELSE IF any_datetime(t)
    THEN LET monthly_rev ==
                 resample_M(t, LAMBDA rows :
                     SumSeq([i \in 1..Len(rows) |-> rows[i]["revenue"][1]]))
         IN Emit(t, Insight(<<"Monthly Revenue Trend">>,
                            <<"Total revenue collected over time.">>, "line",
                            [k \in 1..Len(monthly_rev) |->
                               Entry(strftime_Ym(monthly_rev[k].label),
                                     monthly_rev[k].value)]))
    ELSE Omit(t)

Insight21(t) ==
    Emit(t, Insight(<<"Doctor Workload Distribution">>,
                    <<"Distribution of patient load across all doctors.">>, "bar",
                    value_counts(Column(t, "doctor_name"))))

\* groupby(['department', 'branch']).size(), pivoted with fillna(0), then
\* summed along each department's row
Insight22(t) ==
    LET depts == group_keys(t, "department")
        branches == group_keys(t, "branch")
        size(d, b) == Cardinality({i \in 1..Len(t.rows) :
                         t.rows[i]["department"] = Some(d)
                         /\ t.rows[i]["branch"] = Some(b)})
    IN Emit(t, Insight(<<"Department Activity by Branch">>,
                       <<"Cross-tabulation of departments and branches.">>, "bar",
                       [k \in 1..Len(depts) |->
                          Entry(depts[k],
                                SumSeq([j \in 1..Len(branches) |->
                                          size(depts[k], branches[j])]))]))

\* adults counted from above 18 only
Insight23AdultAbove18(t) ==
    LET pediatric == Len(RowsWhere(t, LAMBDA r :
                           notna(r["age"]) /\ r["age"][1] < Years(18)).rows)
        adult == Len(RowsWhere(t, LAMBDA r :
                           notna(r["age"]) /\ r["age"][1] > Years(18)).rows)
    IN Emit(t, Insight(<<"Pediatric vs Adult Patients">>,
                       <<"Ratio of patients under 18 vs adults.">>, "pie",
                       <<Entry("Pediatric (<18)", pediatric),
                         Entry("Adult (18+)", adult)>>))

Insight23(t) ==
    LET pediatric == Len(RowsWhere(t, LAMBDA r :
                           notna(r["age"]) /\ r["age"][1] < Years(18)).rows)
        adult == Len(RowsWhere(t, LAMBDA r :
                           notna(r["age"]) /\ r["age"][1] >= Years(18)).rows)
    IN Emit(t, Insight(<<"Pediatric vs Adult Patients">>,
                       <<"Ratio of patients under 18 vs adults.">>, "pie",
                       <<Entry("Pediatric (<18)", pediatric),
                         Entry("Adult (18+)", adult)>>))

\* the value is in tenths: round(total_patients / unique_doctors, 1)
Insight24(t) ==
    LET total_patients == Len(t.rows)
        unique_doctors == nunique(Column(t, "doctor_name"))
        avg_patients_per_doc == IF unique_doctors > 0
                                THEN round1(total_patients, unique_doctors)
                                ELSE 0
    IN Emit(t, Insight(<<"Average Patients per Doctor">>,
                       <<"Each doctor sees approximately ", avg_patients_per_doc,
                         " patients on average.">>, "bar",
                       <<Entry("Avg Patients/Doctor", avg_patients_per_doc)>>))

Insight25(t) ==
    IF "patient_id" \notin t.cols THEN Raise(t, "KeyError: 'Column not found: patient_id'")
    ELSE Emit(t, Insight(<<"Unique Patients by Branch">>,
                         <<"Number of unique patients visiting each branch.">>, "bar",
                         sort_values_desc(groupby_nunique(t, "branch", "patient_id"))))

\* the blocks of get_insights, in the order of the code; td is the local
\* variable top_dept
StepBody(k, t, td) ==
    CASE k = 1 -> Insight1(t)   [] k = 2 -> Insight2(t)   [] k = 3 -> Insight3(t)
      [] k = 4 -> Insight4(t)   [] k = 5 -> Insight5(t)   [] k = 6 -> Insight6(t)
      [] k = 7 -> Insight7(t)   [] k = 8 -> Insight8(t)   [] k = 9 -> Insight9(t)
      [] k = 10 -> Insight10(t) [] k = 11 -> Insight11(t) [] k = 12 -> Insight12(t)
      [] k = 13 -> Insight13(t) [] k = 14 -> Insight14(t) [] k = 15 -> Insight15(t)
      [] k = 16 -> Insight16(t) [] k = 17 -> Insight17(t) [] k = 18 -> Insight18(t)
      [] k = 19 -> Insight19(t, td) [] k = 20 -> Insight20(t) [] k = 21 -> Insight21(t)
      [] k = 22 -> Insight22(t) [] k = 23 -> Insight23(t) [] k = 24 -> Insight24(t)
      [] k = 25 -> Insight25(t)

\* the outcome r of block k with the local variable as the block leaves it:
\* assigned by Insight 18 before anything is appended, otherwise as it was
WithLocals(k, t, td, r) ==
    [raised |-> r.raised, df |-> r.df, out |-> r.out,
     top_dept |-> IF k = 18 /\ r.raised = "" THEN Some(top_dept(t)) ELSE td]

\* step k of get_insights on the DataFrame t and the local variable td
Step(k, t, td) == WithLocals(k, t, td, StepBody(k, t, td))

\* the titles of the catalog, in order; the two of the busiest department
\* are named by their fixed part
Catalog ==
    <<"Top 5 Busiest Doctors", "Patient Visits by Department", "Revenue by Department",
      "Top 10 Doctors by Avg Revenue", "Patient Age Group Distribution",
      "Patient Gender Distribution", "Visits by Branch (Location)", "Revenue by Branch",
      "Top Payment Modes", "Monthly Patient Visits Trend", "Visits by Day of Week",
      "Appointment Status Distribution", "Revenue per Visit Distribution",
      "Zero-Payment Visits by Department", "Patient Retention Rate",
      "Peak Visiting Hours", "Average Patient Age by Department",
      "Gender Distribution in ", "Top Doctors in ", "Monthly Revenue Trend",
      "Doctor Workload Distribution", "Department Activity by Branch",
      "Pediatric vs Adult Patients", "Average Patients per Doctor",
      "Unique Patients by Branch">>

\* a handler that answers with the insights appended before the exception
ExceptClauseKeepsPrefix(t, insights, e) ==
    [status |-> 500, body |-> insights, detail |-> <<"Error processing data: ", e>>,
     df |-> t]

\* except Exception as e: raise HTTPException(status_code=500, detail=...)
\* the insights appended so far are dropped with the frame of the call
ExceptClause(t, insights, e) ==
    [status |-> 500, body |-> <<>>, detail |-> <<"Error processing data: ", e>>,
     df |-> t]

\* return insights
ReturnInsights(t, insights) ==
    [status |-> 200, body |-> insights, detail |-> <<>>, df |-> t]

\* the body of the try block from step k on
RECURSIVE RunFrom(_, _, _, _)
RECURSIVE AfterStep(_, _, _)
RunFrom(k, t, td, insights) ==
    IF k > Len(Catalog) THEN ReturnInsights(Some(t), insights)
    ELSE AfterStep(k, Step(k, t, td), insights)

\* what follows step k, whose outcome is r
AfterStep(k, r, insights) ==
    IF r.raised # "" THEN ExceptClause(Some(r.df), insights, r.raised)
    ELSE RunFrom(k + 1, r.df, r.top_dept, insights \o r.out)

\* the outcome of one call of get_insights on file f
get_insights(f) ==
    LET loaded == load_and_clean_data(f)
    IN IF loaded.raised # "" THEN ExceptClause(NaN, <<>>, loaded.raised)
       ELSE RunFrom(1, loaded.df[1], NaN, <<>>)

\* get_dashboard returns get_insights()
get_dashboard(f) == get_insights(f)

(***************************************************************************)
(* The files the model is run on.  A file is [exists, cols, rows]: whether *)
(* DATA_FILE is on disk, its header cells as written, and its data rows.   *)
(***************************************************************************)
MaxCalls == 2

MaxRowsShape == 2

MaxRowsGroups == 2

MaxRowsBins == 3

Chars(n) ==
    CASE n = "" -> <<>>
      [] n = "0" -> <<"0">>
      [] n = "10" -> <<"1", "0">>
      [] n = "17.5" -> <<"1", "7", ".", "5">>
      [] n = "18" -> <<"1", "8">>
      [] n = "24Y" -> <<"2", "4", "Y">>
      [] n = "49" -> <<"4", "9">>
      [] n = "6m" -> <<"6", "m">>
      [] n = "70" -> <<"7", "0">>
      [] n = "150" -> <<"1", "5", "0">>
      [] n = " " -> <<" ">>
      [] n = "abc" -> <<"a", "b", "c">>
      [] n = "-100" -> <<"-", "1", "0", "0">>
      [] n = "250" -> <<"2", "5", "0">>
      [] n = "500" -> <<"5", "0", "0">>
      [] n = "1200" -> <<"1", "2", "0", "0">>
      [] n = "5000" -> <<"5", "0", "0", "0">>
      [] n = "10000" -> <<"1", "0", "0", "0", "0">>

Date(a, b, yy, hh, mi) ==
    [kind |-> "dmy", a |-> a, b |-> b, yy |-> yy, hh |-> hh, mi |-> mi]

NoDate == [kind |-> "text"]

\* the header of the export, as written ("Practitioner " has a trailing blank)
HeaderFull ==
    {"Practitioner ", "Medical Department", "Company", "Gender", "Status",
     "Mode of Payment", "Patient", "Patient Name", "Age",
     "Appointment Date & Time", "Paid Amount"}

\* one ordinary row of the export
BaseCell(c) ==
    CASE c = "Practitioner " -> Some("Dr. Ali")
      [] c = "Medical Department" -> Some("Cardiology")
      [] c = "Company" -> Some("Clifton")
      [] c = "Gender" -> Some("Male")
      [] c = "Status" -> Some("Closed")
      [] c = "Mode of Payment" -> Some("Cash")
      [] c = "Patient" -> Some("P1")
      [] c = "Patient Name" -> Some("Asad")
      [] c = "Age" -> Some(Chars("49"))
      [] c = "Appointment Date & Time" -> Some(Date(2, 12, 25, 17, 46))
      [] c = "Paid Amount" -> Some(Chars("500"))

\* the row over header cols that differs from the ordinary row as o says
MkRow(cols, o) ==
    [c \in cols |-> IF c \in DOMAIN o THEN o[c] ELSE BaseCell(c)]

\* all files of at most n rows over a header and a set of rows
FilesOver(cols, rowset, n) ==
    {[exists |-> TRUE, cols |-> cols, rows |-> rs] :
        rs \in UNION {[1..k -> rowset] : k \in 0..n}}

MissingFile == [exists |-> FALSE, cols |-> {}, rows |-> <<>>]

\* headers with and without the patient identifier, the appointment
\* timestamp, the age and the department
ShapeHeaders ==
    {HeaderFull \ d : d \in (SUBSET {"Patient", "Appointment Date & Time"})
                              \cup {{"Age"}, {"Medical Department", "Paid Amount"}}}

ShapeRows(cols) ==
    {MkRow(cols, ("Appointment Date & Time" :> Some(d)) @@ ("Patient" :> Some(p))
                   @@ ("Medical Department" :> Some(m))) :
        d \in {Date(2, 12, 25, 17, 46), Date(31, 2, 25, 10, 0)},
        p \in {"P1", "P2"},
        m \in {"Cardiology", "ENT"}}

ShapeFiles ==
    {MissingFile} \cup UNION {FilesOver(h, ShapeRows(h), MaxRowsShape) : h \in ShapeHeaders}

\* files whose rows differ in department, doctor (each at a branch of their
\* own), paid amount and age
GroupRows ==
    {MkRow(HeaderFull, ("Medical Department" :> Some(m)) @@ ("Practitioner " :> Some(d))
                         @@ ("Company" :> Some(IF d = "Dr. Ali" THEN "Saddar" ELSE "Clifton"))
                         @@ ("Paid Amount" :> Some(Chars(ra[1])))
                         @@ ("Age" :> Some(Chars(ra[2])))) :
        m \in {"Cardiology", "ENT"}, d \in {"Dr. Ali", "Dr. Khan"},
        ra \in {<<"250", "10">>, <<"250", "17.5">>, <<"1200", "17.5">>}}

GroupFiles == FilesOver(HeaderFull, GroupRows, MaxRowsGroups)

\* files whose rows differ in the age cell only (an empty cell is NaN)
AgeCells ==
    {NaN} \cup {Some(Chars(a)) : a \in {"10", "24Y", "70", "150", "6m"}}

AgeFiles ==
    FilesOver(HeaderFull, {MkRow(HeaderFull, "Age" :> a) : a \in AgeCells}, MaxRowsBins)
    \cup FilesOver(HeaderFull \ {"Age"}, {MkRow(HeaderFull \ {"Age"}, <<>>)}, MaxRowsBins)

\* files whose rows differ in the paid amount only
RevenueCells ==
    {Some(Chars(r)) : r \in {"-100", "0", "500", "5000", "10000", "abc"}}

RevenueFiles ==
    FilesOver(HeaderFull, {MkRow(HeaderFull, "Paid Amount" :> r) : r \in RevenueCells},
              MaxRowsBins)

\* files of patients aged 18 whose rows differ in the patient identifier
PatientFiles ==
    FilesOver(HeaderFull,
              {MkRow(HeaderFull, ("Patient" :> p) @@ ("Age" :> Some(Chars("18")))) :
                  p \in {NaN, Some("P1"), Some("P2")}},
              MaxRowsBins)

BinFiles == AgeFiles \cup RevenueFiles \cup PatientFiles

(***************************************************************************)
(* The state machine: one backing file, the calls of the two endpoints     *)
(***************************************************************************)
NoResponse == <<>>

TypeOK ==
    /\ file.exists \in BOOLEAN
    /\ calls \in 0..MaxCalls
    /\ tie_order \in TieOrders
    /\ response = NoResponse \/ response[1].status \in {200, 500}

Respond(r) ==
    /\ response' = <<[status |-> r.status, body |-> r.body, detail |-> r.detail]>>
    /\ df' = r.df
    /\ calls' = calls + 1
    /\ UNCHANGED <<file, tie_order>>

\* GET /api/v1/analytics/doctor-patient-insights
GetInsights ==
    /\ calls < MaxCalls
    /\ Respond(get_insights(file))

\* GET /api/v1/analytics/dashboard
GetDashboard ==
    /\ calls < MaxCalls
    /\ Respond(get_dashboard(file))

Next == GetInsights \/ GetDashboard

InitWith(files) ==
    /\ file \in files
    /\ df = NaN
    /\ response = NoResponse
    /\ calls = 0
    /\ tie_order \in TieOrders

Init == InitWith(ShapeFiles)

Spec == Init /\ [][Next]_vars

\* the same machine on the files of GroupFiles
InitGroups == InitWith(GroupFiles)

SpecGroups == InitGroups /\ [][Next]_vars

\* the same machine on the files of BinFiles
InitBins == InitWith(BinFiles)

SpecBins == InitBins /\ [][Next]_vars

(***************************************************************************)
(* What the properties below read off a state                              *)
(***************************************************************************)
Responded == response # NoResponse

Resp == response[1]

\* the fixed part of every title of a response body, in order
Titles(body) == Tuple([i \in 1..Len(body) |-> body[i].title[1]])

HasInsight(body, title) == \E i \in 1..Len(body) : body[i].title[1] = title

InsightOf(body, title) == body[CHOOSE i \in 1..Len(body) : body[i].title[1] = title]

DatetimeTitles ==
    {"Monthly Patient Visits Trend", "Visits by Day of Week", "Peak Visiting Hours",
     "Monthly Revenue Trend"}

PatientIdTitles == {"Patient Retention Rate", "Unique Patients by Branch"}

CatalogWithout(omitted) == SelectSeq(Catalog, LAMBDA x : x \notin omitted)

\* the file's header holds the column, whatever blanks surround its name
FileHasColumn(name) == \E c \in file.cols : StripName(c) = name

\* the rows of the DataFrame of the last call
Frame == df[1]

NoDatetimeParses ==
    /\ df # NaN
    /\ "visit_datetime" \in Frame.cols
    /\ \A i \in 1..Len(Frame.rows) : isna(Frame.rows[i]["visit_datetime"])

(***************************************************************************)
(* C1 (as claimed): on a file with the expected header and no data row,    *)
(* get_insights raises nothing and returns a list without any of the four  *)
(* datetime insights.  The code raises: idxmax of the empty department     *)
(* counts is a ValueError, which the handler turns into HTTP 500.          *)
(***************************************************************************)
C1_EmptyInputReturnsList ==
    (Responded /\ file.exists /\ file.cols = HeaderFull /\ file.rows = <<>>)
        => /\ Resp.status = 200
           /\ \A i \in 1..Len(Resp.body) : Resp.body[i].title[1] \notin DatetimeTitles

(***************************************************************************)
(* C2 (as claimed): on a non-empty file whose header lacks the patient     *)
(* identifier or the appointment timestamp, get_insights succeeds and      *)
(* returns the catalog without exactly the insights that need the missing  *)
(* column.  The code raises a KeyError at the first unguarded read.        *)
(***************************************************************************)
C2_MissingColumnOmitsItsInsights ==
    (/\ Responded /\ file.exists /\ file.rows # <<>>
     /\ HeaderFull \ file.cols \in
          (SUBSET {"Patient", "Appointment Date & Time"}) \ {{}})
        => /\ Resp.status = 200
           /\ Titles(Resp.body) =
                CatalogWithout(
                    (IF FileHasColumn("Patient") THEN {} ELSE PatientIdTitles)
                    \cup (IF FileHasColumn("Appointment Date & Time") /\ ~NoDatetimeParses
                          THEN {} ELSE DatetimeTitles))

(***************************************************************************)
(* C3 (as claimed): on every non-empty file that has the appointment       *)
(* timestamp column with no value that parses, get_insights succeeds and   *)
(* returns exactly the catalog, in order, without the four datetime        *)
(* insights.  It fails on the files that lack the patient identifier (C2). *)
(***************************************************************************)
C3_NoDatetimeReturnsRestOfCatalog ==
    (/\ Responded /\ file.exists /\ file.rows # <<>>
     /\ FileHasColumn("Appointment Date & Time") /\ NoDatetimeParses)
        => /\ Resp.status = 200
           /\ Titles(Resp.body) = CatalogWithout(DatetimeTitles)

\* the same on the files that do have the patient identifier: this holds
C3_HoldsWithPatientColumn ==
    (/\ Responded /\ file.exists /\ file.rows # <<>> /\ FileHasColumn("Patient")
     /\ FileHasColumn("Appointment Date & Time") /\ NoDatetimeParses)
        => /\ Resp.status = 200
           /\ Titles(Resp.body) = CatalogWithout(DatetimeTitles)

(***************************************************************************)
(* C4: all or nothing.  A call answers 500 with one message and no insight *)
(* at all exactly when the file is missing or a step raises (no timestamp  *)
(* column, no row, no patient identifier column); otherwise it answers 200 *)
(* with the whole list: every insight of the catalog whose precondition    *)
(* holds, in catalog order.                                                *)
(***************************************************************************)
SomeStepRaises ==
    \/ ~file.exists
    \/ ~FileHasColumn("Appointment Date & Time")
    \/ file.rows = <<>>
    \/ ~FileHasColumn("Patient")

C4_AllOrNothing ==
    Responded =>
        IF SomeStepRaises
        THEN /\ Resp.status = 500
             /\ Resp.body = <<>>
             /\ Len(Resp.detail) = 2
             /\ Resp.detail[1] = "Error processing data: "
        ELSE /\ Resp.status = 200
             /\ Resp.detail = <<>>
             /\ Titles(Resp.body) =
                  CatalogWithout(IF NoDatetimeParses THEN DatetimeTitles ELSE {})

\* a call that failed at the last step, after 24 insights were appended
C4_Witness ==
    /\ Responded /\ Resp.status = 500
    /\ file.exists /\ Len(file.rows) = 2
    /\ FileHasColumn("Appointment Date & Time") /\ ~FileHasColumn("Patient")
    /\ Resp.detail[2] = "KeyError: 'Column not found: patient_id'"

(***************************************************************************)
(* Sums and counts over the rows of the DataFrame, for the properties      *)
(***************************************************************************)
Succeeded == Responded /\ Resp.status = 200

ChartOf(title) == InsightOf(Resp.body, title).chart_data

RowCount(P(_)) == Cardinality({i \in 1..Len(Frame.rows) : P(Frame.rows[i])})

\* the sum of column col over the rows whose column key holds k
RECURSIVE RowSum(_, _, _, _)
RowSum(rows, key, k, col) ==
    IF rows = <<>> THEN 0
    ELSE (IF Head(rows)[key] = Some(k) THEN Head(rows)[col][1] ELSE 0)
           + RowSum(Tail(rows), key, k, col)

KeysOf(key) == {Frame.rows[i][key][1] : i \in 1..Len(Frame.rows)}

NonIncreasing(v) == \A i \in 1..(Len(v) - 1) : v[i] >= v[i + 1]

NonDecreasing(v) == \A i \in 1..(Len(v) - 1) : v[i] <= v[i + 1]

\* one entry per group of column key, no group twice
OneEntryPerGroup(chart, key) ==
    /\ Len(chart.labels) = Len(chart.values)
    /\ Range(chart.labels) = KeysOf(key)
    /\ Len(chart.labels) = Cardinality(KeysOf(key))

\* a group-sum insight: the revenue of each group, largest first
RevenueSumDescending(title, key) ==
    LET chart == ChartOf(title)
    IN /\ OneEntryPerGroup(chart, key)
       /\ \A k \in 1..Len(chart.labels) :
             chart.values[k] = RowSum(Frame.rows, key, chart.labels[k], "revenue")
       /\ NonIncreasing(chart.values)

\* the group-mean insight of revenue: the mean of each doctor, largest first
AvgRevenueDescending ==
    LET chart == ChartOf("Top 10 Doctors by Avg Revenue")
    IN /\ OneEntryPerGroup(chart, "doctor_name")
       /\ Len(chart.labels) <= 10
       /\ \A k \in 1..Len(chart.labels) :
             /\ chart.values[k].num =
                  RowSum(Frame.rows, "doctor_name", chart.labels[k], "revenue")
             /\ chart.values[k].den =
                  RowCount(LAMBDA r : r["doctor_name"] = Some(chart.labels[k]))
       /\ \A k \in 1..(Len(chart.labels) - 1) :
             chart.values[k].num * chart.values[k + 1].den
               >= chart.values[k + 1].num * chart.values[k].den

\* the age total (units) and the head count of a department
AgeSum(d) == RowSum(Frame.rows, "department", d, "age")

HeadCount(d) == RowCount(LAMBDA r : r["department"] = Some(d))

\* v tenths of a year is the mean age of department d rounded to one decimal
IsRoundedMeanAge(v, d) ==
    LET num == 10 * AgeSum(d)
        den == HeadCount(d) * Scale
    IN /\ 2 * (num - v * den) <= den
       /\ 2 * (v * den - num) <= den
       /\ (2 * (num - v * den) = den \/ 2 * (v * den - num) = den) => v % 2 = 0

(***************************************************************************)
(* C5 (as claimed): all four group-sum and group-mean insights are emitted *)
(* largest value first, and every value is the sum or the mean itself.     *)
(* Average Patient Age by Department is sorted smallest first and rounded. *)
(***************************************************************************)
C5_AllGroupInsightsDescending ==
    Succeeded =>
        /\ RevenueSumDescending("Revenue by Department", "department")
        /\ RevenueSumDescending("Revenue by Branch", "branch")
        /\ AvgRevenueDescending
        /\ LET chart == ChartOf("Average Patient Age by Department")
           IN /\ OneEntryPerGroup(chart, "department")
              /\ \A k \in 1..Len(chart.labels) :
                    chart.values[k] * HeadCount(chart.labels[k]) * Scale
                      = 10 * AgeSum(chart.labels[k])
              /\ NonIncreasing(chart.values)

(***************************************************************************)
(* C5 (amended): Revenue by Department, Revenue by Branch and Top 10       *)
(* Doctors by Avg Revenue are emitted largest value first, each value the  *)
(* sum (the mean) of revenue over exactly the records of the group;        *)
(* Average Patient Age by Department is emitted smallest mean first, each  *)
(* value the mean age of the group rounded to one decimal.                 *)
(***************************************************************************)
C5_GroupOrdering ==
    Succeeded =>
        /\ RevenueSumDescending("Revenue by Department", "department")
        /\ RevenueSumDescending("Revenue by Branch", "branch")
        /\ AvgRevenueDescending
        /\ LET chart == ChartOf("Average Patient Age by Department")
           IN /\ OneEntryPerGroup(chart, "department")
              /\ \A k \in 1..Len(chart.labels) :
                    IsRoundedMeanAge(chart.values[k], chart.labels[k])
              /\ \A k \in 1..(Len(chart.labels) - 1) :
                    AgeSum(chart.labels[k]) * HeadCount(chart.labels[k + 1])
                      <= AgeSum(chart.labels[k + 1]) * HeadCount(chart.labels[k])
              /\ NonDecreasing(chart.values)

\* two departments: ENT earns more and is older on average than Cardiology
C5_Witness ==
    /\ Succeeded
    /\ ChartOf("Revenue by Department").labels = <<"ENT", "Cardiology">>
    /\ ChartOf("Revenue by Department").values = <<1200, 250>>
    /\ ChartOf("Average Patient Age by Department").labels = <<"Cardiology", "ENT">>
    /\ ChartOf("Average Patient Age by Department").values = <<100, 175>>

(***************************************************************************)
(* C6 (as claimed): every record with revenue >= 0 is counted in exactly   *)
(* one of [0,500), [500,1000), [1000,2000), [2000,5000), [5000,infinity),  *)
(* so the five counts sum to the number of records with revenue >= 0.  The *)
(* code's last bin ends at 10000: a revenue of 10000 or more is in no bin. *)
(***************************************************************************)
ClaimedRevenueEdges == <<0, 500, 1000, 2000, 5000>>

InClaimedBucket(x, edges, k) ==
    edges[k] <= x /\ (k < Len(edges) => x < edges[k + 1])

C6_RevenueBucketsCoverAll ==
    Succeeded =>
        LET chart == ChartOf("Revenue per Visit Distribution")
        IN /\ Len(chart.values) = 5
           /\ \A k \in 1..5 :
                 chart.values[k] =
                   RowCount(LAMBDA r : InClaimedBucket(r["revenue"][1],
                                                       ClaimedRevenueEdges, k))
           /\ SumSeq(chart.values) = RowCount(LAMBDA r : r["revenue"][1] >= 0)

(***************************************************************************)
(* C7 (as claimed): every record is counted in exactly one of [0,18),      *)
(* [18,30), [30,50), [50,70), [70,infinity), so the five counts sum to the *)
(* number of records.  The code's last bin ends at 150: an age of 150 or   *)
(* more is in no bin.                                                      *)
(***************************************************************************)
ClaimedAgeEdges == <<0, Years(18), Years(30), Years(50), Years(70)>>

C7_AgeBucketsCoverAll ==
    Succeeded =>
        LET chart == ChartOf("Patient Age Group Distribution")
        IN /\ Len(chart.values) = 5
           /\ \A k \in 1..5 :
                 chart.values[k] =
                   RowCount(LAMBDA r : InClaimedBucket(r["age"][1], ClaimedAgeEdges, k))
           /\ SumSeq(chart.values) = Len(Frame.rows)

(***************************************************************************)
(* C8: whenever get_insights succeeds, the two binned distributions carry  *)
(* their five labels in the fixed ascending order, whatever the counts,    *)
(* and each value is the number of records in that bin of the code (0 for  *)
(* a bin without record).                                                  *)
(***************************************************************************)
InBin(x, bins, k) == bins[k] <= x /\ x < bins[k + 1]

C8_BinnedShape ==
    Succeeded =>
        /\ ChartOf("Patient Age Group Distribution").labels
             = <<"0-18", "19-30", "31-50", "51-70", "70+">>
        /\ ChartOf("Revenue per Visit Distribution").labels
             = <<"0-500", "501-1000", "1001-2000", "2001-5000", "5000+">>
        /\ Len(ChartOf("Patient Age Group Distribution").values) = 5
        /\ Len(ChartOf("Revenue per Visit Distribution").values) = 5
        /\ \A k \in 1..5 :
              /\ ChartOf("Patient Age Group Distribution").values[k]
                   = RowCount(LAMBDA r : InBin(r["age"][1], age_bins, k))
              /\ ChartOf("Revenue per Visit Distribution").values[k]
                   = RowCount(LAMBDA r : InBin(r["revenue"][1], rev_bins, k))

\* an age distribution with an empty bin and a later bin fuller than an earlier
C8_Witness ==
    /\ Succeeded
    /\ ChartOf("Patient Age Group Distribution").values = <<1, 0, 0, 0, 2>>

(***************************************************************************)
(* C9: Pediatric vs Adult Patients has exactly its two labels, the records *)
(* under 18 and the records of 18 or more, which sum to the number of      *)
(* records; Patient Retention Rate, when emitted, has exactly its two      *)
(* labels, the patients seen more than once and those seen once, which sum *)
(* to the number of distinct patient identifiers.                          *)
(***************************************************************************)
PatientIds == {Frame.rows[i]["patient_id"][1] :
                  i \in {j \in 1..Len(Frame.rows) : notna(Frame.rows[j]["patient_id"])}}

VisitsOf(p) == RowCount(LAMBDA r : r["patient_id"] = Some(p))

C9_BinaryPartitions ==
    Succeeded =>
        /\ ChartOf("Pediatric vs Adult Patients").labels
             = <<"Pediatric (<18)", "Adult (18+)">>
        /\ ChartOf("Pediatric vs Adult Patients").values
             = <<RowCount(LAMBDA r : r["age"][1] < Years(18)),
                 RowCount(LAMBDA r : r["age"][1] >= Years(18))>>
        /\ SumSeq(ChartOf("Pediatric vs Adult Patients").values) = Len(file.rows)
        /\ HasInsight(Resp.body, "Patient Retention Rate") =>
             /\ ChartOf("Patient Retention Rate").labels
                  = <<"Repeat Patients", "One-time Patients">>
             /\ ChartOf("Patient Retention Rate").values
                  = <<Cardinality({p \in PatientIds : VisitsOf(p) > 1}),
                      Cardinality({p \in PatientIds : VisitsOf(p) = 1})>>
             /\ SumSeq(ChartOf("Patient Retention Rate").values) = Cardinality(PatientIds)

\* three patients of exactly 18: one seen twice, one once
C9_Witness ==
    /\ Succeeded
    /\ ChartOf("Pediatric vs Adult Patients").values = <<0, 3>>
    /\ ChartOf("Patient Retention Rate").values = <<1, 1>>

(***************************************************************************)
(* C10: after load_and_clean_data every record has an age: its parsed age  *)
(* when the raw age parses, else the median of all parsed ages of the      *)
(* table (the mean of the two middle ones when their number is even), or 0 *)
(* when no age parses or the file has no age column.  Raw ages "10", "",   *)
(* "24Y" give 10, 17, 24.                                                  *)
(***************************************************************************)
ParsedAges == Tuple([i \in 1..Len(file.rows) |-> parse_age(file.rows[i]["Age"])])

ParsedValues == Tuple([i \in 1..Len(dropna(ParsedAges)) |-> dropna(ParsedAges)[i][1]])

\* the k-th smallest of the parsed ages
KthSmallest(k) ==
    CHOOSE v \in Range(ParsedValues) :
        /\ Cardinality({i \in 1..Len(ParsedValues) : ParsedValues[i] < v}) < k
        /\ Cardinality({i \in 1..Len(ParsedValues) : ParsedValues[i] <= v}) >= k

\* m is the median of the parsed ages
IsMedianOfParsed(m) ==
    LET n == Len(ParsedValues)
    IN IF n % 2 = 1 THEN m = KthSmallest((n + 1) \div 2)
       ELSE 2 * m = KthSmallest(n \div 2) + KthSmallest(n \div 2 + 1)

C10_AgeImputation ==
    (Responded /\ df # NaN) =>
        /\ Len(Frame.rows) = Len(file.rows)
        /\ \A i \in 1..Len(Frame.rows) : notna(Frame.rows[i]["age"])
        /\ IF ~FileHasColumn("Age")
           THEN \A i \in 1..Len(Frame.rows) : Frame.rows[i]["age"] = Some(0)
           ELSE \A i \in 1..Len(Frame.rows) :
                   IF notna(ParsedAges[i]) THEN Frame.rows[i]["age"] = ParsedAges[i]
                   ELSE IF ParsedValues = <<>> THEN Frame.rows[i]["age"] = Some(0)
                   ELSE IsMedianOfParsed(Frame.rows[i]["age"][1])
        /\ (FileHasColumn("Age")
              /\ Column(file, "Age") = <<Some(Chars("10")), NaN, Some(Chars("24Y"))>>)
             => Column(Frame, "age") = <<Some(Years(10)), Some(Years(17)), Some(Years(24))>>

\* the example of the specification: "10", "", "24Y"
C10_Witness ==
    /\ Responded /\ df # NaN /\ FileHasColumn("Age")
    /\ Column(file, "Age") = <<Some(Chars("10")), NaN, Some(Chars("24Y"))>>
    /\ Column(Frame, "age") = <<Some(Years(10)), Some(Years(17)), Some(Years(24))>>

MaxRowsClean == 2

MaxRowsDates == 2

MaxRowsTop == 2

MaxRowsScope == 2

MaxRowsRatio == 7

MaxRowsNumeric == 2

MaxRowsIndep == 2

(***************************************************************************)
(* parse_age on its own: files of one row whose age token is built of a    *)
(* prefix, a number and a suffix, and the step of load_and_clean_data that *)
(* applies parse_age to the age column                                     *)
(***************************************************************************)
AgePrefixes == {<<>>, <<" ">>, <<"a">>, <<"m">>, <<"Y">>, <<".">>}

AgeNumbers == {<<>>, <<"6">>, <<"1", "8">>, <<"3", ".", "3">>, <<"6", ".">>, <<"0">>}

AgeSuffixes ==
    {<<>>, <<" ">>, <<"Y">>, <<"y">>, <<"M">>, <<"m">>, <<"Y", "6", "M">>,
     <<"m", "o">>, <<".", "5">>}

AgeTokens == {p \o n \o s : p \in AgePrefixes, n \in AgeNumbers, s \in AgeSuffixes}

ParseFiles ==
    FilesOver(HeaderFull,
              {MkRow(HeaderFull, "Age" :> a) : a \in {NaN} \cup {Some(k) : k \in AgeTokens}},
              1)

\* df['age'] = df['age_raw'].apply(parse_age), on the table as read and renamed
ApplyParseAge ==
    /\ file.exists /\ df = NaN
    /\ LET t == ParseDates(CleanColumns([cols |-> file.cols, rows |-> file.rows]))
       IN df' = Some(SetColumn(t, "age",
                       Tuple([i \in 1..Len(t.rows) |-> parse_age(t.rows[i]["age_raw"])])))
    /\ UNCHANGED <<file, response, calls, tie_order>>

InitParse == InitWith(ParseFiles)

NextParse == ApplyParseAge

SpecParse == InitParse /\ [][NextParse]_vars

(***************************************************************************)
(* The first number of a token, stated on the text itself                  *)
(***************************************************************************)
AllDigits(s, a, b) == \A k \in a..b : IsDigit(s[k])

\* s[i..j] reads <digits> or <digits>.<digits>
IsNumberAt(s, i, j) ==
    \E k \in i..j :
        /\ AllDigits(s, i, k)
        /\ k = j \/ (s[k + 1] = "." /\ k + 2 <= j /\ AllDigits(s, k + 2, j))

\* the units of the decimal numeral s[i..j]: each digit times its place
NumeralUnits(s, i, j) ==
    LET dot == IF \E k \in i..j : s[k] = "."
               THEN CHOOSE k \in i..j : s[k] = "." ELSE j + 1
    IN SumSeq(Tuple([k \in 1..(j - i + 1) |->
           LET q == i + k - 1
           IN IF q < dot THEN DigitVal(s[q]) * Pow10(dot - 1 - q) * Scale
              ELSE IF q = dot THEN 0
              ELSE (DigitVal(s[q]) * Scale) \div Pow10(q - dot)]))

\* the units of the leftmost, longest number of s (s holds a digit)
FirstNumberUnits(s) ==
    LET i == CHOOSE a \in 1..Len(s) : IsDigit(s[a]) /\ \A b \in 1..(a - 1) : ~IsDigit(s[b])
        j == CHOOSE b \in i..Len(s) :
                 IsNumberAt(s, i, b) /\ \A c \in (b + 1)..Len(s) : ~IsNumberAt(s, i, c)
    IN NumeralUnits(s, i, j)

HasLetter(s, lower, capital) == \E k \in 1..Len(s) : s[k] \in {lower, capital}

\* what C11 says parse_age returns for a cell
ClaimedAge(cell) ==
    IF isna(cell) THEN NaN
    ELSE IF \A k \in 1..Len(cell[1]) : ~IsDigit(cell[1][k]) THEN NaN
    ELSE IF HasLetter(cell[1], "m", "M") /\ ~HasLetter(cell[1], "y", "Y")
    THEN Some(FirstNumberUnits(cell[1]) \div 12)
    ELSE Some(FirstNumberUnits(cell[1]))

(***************************************************************************)
(* C11: parse_age returns None for a missing, empty or blank token and for *)
(* a token without digit; else the first number of the token, divided by   *)
(* 12 exactly when the token holds an M and no Y (in either case); a token *)
(* with both, such as "1Y6M" or "m6Y", keeps its first number as years.    *)
(***************************************************************************)
C11_ParseAgeRule ==
    df # NaN =>
        \A i \in 1..Len(Frame.rows) :
            /\ Frame.rows[i]["age"] = ClaimedAge(file.rows[i]["Age"])
            /\ file.rows[i]["Age"] = Some(<<"m", "6", "Y">>)
                 => Frame.rows[i]["age"] = Some(Years(6))
            /\ file.rows[i]["Age"] = Some(<<"3", ".", "3", "m">>)
                 => Frame.rows[i]["age"] = Some((33 * Scale) \div 120)

\* a token with both letters parsed: "Y6M" after a number, read as years
C11_Witness ==
    /\ df # NaN /\ Len(Frame.rows) = 1
    /\ file.rows[1]["Age"] = Some(<<"1", "8", "Y", "6", "M">>)
    /\ Frame.rows[1]["age"] = Some(Years(18))

(***************************************************************************)
(* load_and_clean_data on its own: files whose text cells are null here    *)
(* and there and whose header lacks text columns                           *)
(***************************************************************************)
TextColumns ==
    {"Practitioner ", "Medical Department", "Company", "Gender", "Mode of Payment",
     "Status", "Patient Name"}

\* a second ordinary row, unlike the first in every text cell
OtherCell(c) ==
    CASE c = "Practitioner " -> Some("Dr. Khan")
      [] c = "Medical Department" -> Some("ENT")
      [] c = "Company" -> Some("Saddar")
      [] c = "Gender" -> Some("Female")
      [] c = "Status" -> Some("Open")
      [] c = "Mode of Payment" -> Some("Card")
      [] c = "Patient Name" -> Some("Bilal")
      [] OTHER -> BaseCell(c)

\* no text cell null, one of them, or all of them
NullSets == {{}} \cup {{c} : c \in TextColumns} \cup {TextColumns}

DefaultRows(cols) ==
    {[c \in cols |-> IF c \in nulls THEN NaN
                     ELSE IF other THEN OtherCell(c) ELSE BaseCell(c)] :
        nulls \in NullSets, other \in BOOLEAN}

DefaultFiles ==
    UNION {FilesOver(HeaderFull \ d, DefaultRows(HeaderFull \ d), MaxRowsClean) :
              d \in NullSets}

\* one call of load_and_clean_data(): the DataFrame it returns
LoadAndCleanData ==
    /\ df = NaN
    /\ load_and_clean_data(file).raised = ""
    /\ df' = load_and_clean_data(file).df
    /\ UNCHANGED <<file, response, calls, tie_order>>

InitClean == InitWith(DefaultFiles)

NextClean == LoadAndCleanData

SpecClean == InitClean /\ [][NextClean]_vars

\* the column of the file whose stripped name is name
RawColumn(name) == CHOOSE c \in file.cols : StripName(c) = name

\* the cell of column name in row i of the file; null when the file has no
\* such column
RawCell(i, name) ==
    IF FileHasColumn(name) THEN file.rows[i][RawColumn(name)] ELSE NaN

\* the seven text fields: field, source column, default
TextFields ==
    {<<"doctor_name", "Practitioner", "Unknown Doctor">>,
     <<"department", "Medical Department", "General">>,
     <<"branch", "Company", "Unknown Branch">>,
     <<"gender", "Gender", "Unknown">>,
     <<"payment_mode", "Mode of Payment", "Unknown">>,
     <<"status", "Status", "Unknown">>,
     <<"patient_name", "Patient Name", "Unknown">>}

(***************************************************************************)
(* C12: after load_and_clean_data every record has a value in each of      *)
(* doctor_name, department, branch, gender, payment_mode, status and       *)
(* patient_name: the cell of the file when it is present, else (null cell  *)
(* or absent column) the default of that field; so a missing value changes *)
(* no present value of another field or of another row.                    *)
(***************************************************************************)
C12_SentinelDefaults ==
    df # NaN =>
        /\ Len(Frame.rows) = Len(file.rows)
        /\ \A i \in 1..Len(Frame.rows) : \A f \in TextFields :
              /\ f[1] \in Frame.cols
              /\ notna(Frame.rows[i][f[1]])
              /\ Frame.rows[i][f[1]] =
                   (IF notna(RawCell(i, f[2])) THEN RawCell(i, f[2]) ELSE Some(f[3]))

\* no gender column, a first row without doctor, a second row with one
C12_Witness ==
    /\ df # NaN /\ Len(Frame.rows) = 2
    /\ ~FileHasColumn("Gender")
    /\ isna(RawCell(1, "Practitioner")) /\ RawCell(2, "Practitioner") = Some("Dr. Khan")
    /\ Frame.rows[1]["doctor_name"] = Some("Unknown Doctor")
    /\ Frame.rows[2]["doctor_name"] = Some("Dr. Khan")
    /\ Frame.rows[1]["gender"] = Some("Unknown")
    /\ Frame.rows[1]["department"] = Some("Cardiology")

(***************************************************************************)
(* The calendar insights: files whose rows differ in the appointment       *)
(* timestamp (two Mondays, a Tuesday, a Wednesday, a Sunday; three months  *)
(* of 2025 and 2026, November 2025 without visit; a day that is no date;   *)
(* an empty cell) and in the paid amount                                   *)
(***************************************************************************)
DateCells ==
    {NaN, Some(Date(31, 2, 25, 10, 0)),
     Some(Date(1, 12, 25, 8, 5)), Some(Date(2, 12, 25, 17, 46)),
     Some(Date(7, 12, 25, 8, 30)), Some(Date(15, 10, 25, 17, 0)),
     Some(Date(5, 1, 26, 0, 10))}

DateRows ==
    {MkRow(HeaderFull, ("Appointment Date & Time" :> d) @@ ("Paid Amount" :> Some(Chars(r)))) :
        d \in DateCells, r \in {"250", "1200"}}

DateFiles == FilesOver(HeaderFull, DateRows, MaxRowsDates)

InitDates == InitWith(DateFiles)

SpecDates == InitDates /\ [][Next]_vars

\* the calendar, read off the timestamps of the file: [a, b, yy] is the day
\* a of month b of 20yy
Weekday(tok) ==
    CASE <<tok.a, tok.b, tok.yy>> = <<1, 12, 25>> -> "Monday"
      [] <<tok.a, tok.b, tok.yy>> = <<2, 12, 25>> -> "Tuesday"
      [] <<tok.a, tok.b, tok.yy>> = <<7, 12, 25>> -> "Sunday"
      [] <<tok.a, tok.b, tok.yy>> = <<15, 10, 25>> -> "Wednesday"
      [] <<tok.a, tok.b, tok.yy>> = <<5, 1, 26>> -> "Monday"
      [] OTHER -> "no date"

\* the rows of the file whose timestamp is a date of the calendar
FileRowCount(P(_)) == Cardinality({i \in 1..Len(file.rows) : P(file.rows[i])})

Visit(r) == r["Appointment Date & Time"]

HasVisit(r) == notna(Visit(r)) /\ Weekday(Visit(r)[1]) # "no date"

(***************************************************************************)
(* C13: whenever a record has a parseable visit_datetime, Visits by Day of *)
(* Week has exactly the seven entries Monday ... Sunday in that order,     *)
(* each the number of records visiting on that weekday, 0 for a weekday    *)
(* without visit.                                                          *)
(***************************************************************************)
C13_WeekdayShape ==
    (Succeeded /\ FileRowCount(HasVisit) > 0) =>
        /\ HasInsight(Resp.body, "Visits by Day of Week")
        /\ ChartOf("Visits by Day of Week").labels
             = <<"Monday", "Tuesday", "Wednesday", "Thursday", "Friday", "Saturday",
                 "Sunday">>
        /\ Len(ChartOf("Visits by Day of Week").values) = 7
        /\ \A k \in 1..7 :
              ChartOf("Visits by Day of Week").values[k] =
                FileRowCount(LAMBDA r :
                    HasVisit(r) /\ Weekday(Visit(r)[1])
                                     = ChartOf("Visits by Day of Week").labels[k])

\* a Sunday and a Monday visit of different months: five weekdays at 0
C13_Witness ==
    /\ Succeeded
    /\ Len(file.rows) = 2
    /\ Visit(file.rows[1]) = Some(Date(7, 12, 25, 8, 30))
    /\ Visit(file.rows[2]) = Some(Date(5, 1, 26, 0, 10))
    /\ ChartOf("Visits by Day of Week").values = <<1, 0, 0, 0, 0, 0, 1>>

(***************************************************************************)
(* The top-N insights: files of ten visits, each of another doctor,        *)
(* branch, department, payment mode and status, followed by a few more     *)
(* visits, an eleventh doctor (branch, ...) among them.  The visits of the *)
(* first doctor are paid, all others are free.                             *)
(***************************************************************************)
TopDoctors ==
    <<"Dr. Khan", "Dr. Ali", "Dr. Zaid", "Dr. Omar", "Dr. Bano", "Dr. Raza",
      "Dr. Faiz", "Dr. Syed", "Dr. Dar", "Dr. Hadi", "Dr. Gul">>

TopBranches ==
    <<"Saddar", "Clifton", "Korangi", "Malir", "Defence", "Gulshan", "Lyari",
      "Johar", "Orangi", "Landhi", "Nazimabad">>

TopDepartments ==
    <<"ENT", "Cardiology", "Neurology", "Skin", "Dental", "Urology", "Eye",
      "Ortho", "Gastro", "Peds", "Oncology">>

TopPaymentModes ==
    <<"Cash", "Card", "Cheque", "Online", "Wallet", "Insurance", "Panel",
      "Credit", "Voucher", "Transfer", "Free">>

TopStatuses ==
    <<"Closed", "Open", "Cancelled", "Scheduled", "No Show", "Checked In",
      "Billed", "Draft", "Pending", "Confirmed", "Expired">>

TopRow(k) ==
    MkRow(HeaderFull,
          ("Practitioner " :> Some(TopDoctors[k])) @@ ("Company" :> Some(TopBranches[k]))
            @@ ("Medical Department" :> Some(TopDepartments[k]))
            @@ ("Mode of Payment" :> Some(TopPaymentModes[k]))
            @@ ("Status" :> Some(TopStatuses[k]))
            @@ ("Paid Amount" :> Some(Chars(IF k = 1 THEN "500" ELSE "0"))))

TopPrefix == Tuple([k \in 1..(Len(TopDoctors) - 1) |-> TopRow(k)])

\* the visits that may follow the first ten: of the first two doctors, of
\* the last two of the ten, or of the eleventh
TopTailRows == {TopRow(k) : k \in {1, 2, 9, 10, 11}}

TopFiles ==
    {[exists |-> TRUE, cols |-> HeaderFull, rows |-> TopPrefix \o tail] :
        tail \in UNION {[1..n -> TopTailRows] : n \in 0..MaxRowsTop}}

InitTop == InitWith(TopFiles)

SpecTop == InitTop /\ [][Next]_vars

\* the rows of the DataFrame that a top-N insight counts: all of them, or
\* the free visits
AllRows(r) == TRUE

FreeVisit(r) == r["revenue"] = Some(0)

\* the number of counted rows whose column col holds v, and the first of them
Occurrences(col, v, Counted(_)) ==
    Cardinality({i \in 1..Len(Frame.rows) : Counted(Frame.rows[i]) /\ Frame.rows[i][col] = Some(v)})

FirstSeen(col, v, Counted(_)) ==
    CHOOSE i \in 1..Len(Frame.rows) :
        /\ Counted(Frame.rows[i]) /\ Frame.rows[i][col] = Some(v)
        /\ \A j \in 1..(i - 1) : ~(Counted(Frame.rows[j]) /\ Frame.rows[j][col] = Some(v))

Categories(col, Counted(_)) ==
    {Frame.rows[i][col][1] : i \in {j \in 1..Len(Frame.rows) : Counted(Frame.rows[j])}}

\* a top-N chart: at most n categories, each once, with their counts,
\* largest first, and none left out that has more than one taken
IsTopN(chart, col, n, Counted(_)) ==
    /\ Len(chart.labels) = Len(chart.values)
    /\ Len(chart.labels) <= n
    /\ Len(chart.labels) = n \/ Len(chart.labels) = Cardinality(Categories(col, Counted))
    /\ Range(chart.labels) \subseteq Categories(col, Counted)
    /\ Cardinality(Range(chart.labels)) = Len(chart.labels)
    /\ \A k \in 1..Len(chart.labels) :
          chart.values[k] = Occurrences(col, chart.labels[k], Counted)
    /\ NonIncreasing(chart.values)
    /\ \A c \in Categories(col, Counted) \ Range(chart.labels) :
          \A k \in 1..Len(chart.labels) : Occurrences(col, c, Counted) <= chart.values[k]

\* equal counts in the order of first encounter
TiesAsFirstSeen(chart, col, Counted(_)) ==
    \A i, j \in 1..Len(chart.labels) :
        (i < j /\ chart.values[i] = chart.values[j])
          => FirstSeen(col, chart.labels[i], Counted) < FirstSeen(col, chart.labels[j], Counted)

ScopeRows ==
    {MkRow(HeaderFull, ("Medical Department" :> Some(m)) @@ ("Gender" :> Some(g))
                         @@ ("Practitioner " :> Some(d))) :
        m \in {"Cardiology", "ENT"}, g \in {"Male", "Female"}, d \in {"Dr. Ali", "Dr. Khan"}}

SixDoctors ==
    Tuple([k \in 1..6 |->
        MkRow(HeaderFull, ("Practitioner " :> Some(TopDoctors[k]))
                            @@ ("Gender" :> Some(IF k % 2 = 0 THEN "Male" ELSE "Female")))])

ScopeFiles ==
    FilesOver(HeaderFull, ScopeRows, MaxRowsScope)
      \cup {[exists |-> TRUE, cols |-> HeaderFull, rows |-> SixDoctors \o tail] :
               tail \in UNION {[1..n -> ScopeRows] : n \in 0..(MaxRowsScope - 1)}}

InitScope == InitWith(ScopeFiles)

SpecScope == InitScope /\ [][Next]_vars

\* the department that the title of the gender insight names
NamedDept == InsightOf(Resp.body, "Gender Distribution in ").title[2]

VisitsOfDept(d) == RowCount(LAMBDA r : r["department"] = Some(d))

InNamedDept(r) == r["department"] = Some(NamedDept)

(***************************************************************************)
(* C15: Gender Distribution in <D> and Top Doctors in <D> name the same D  *)
(* in title and description; D is a department with the largest visit      *)
(* count; the genders are counted over exactly the records of D, so they   *)
(* sum to D's visit count; the doctors are the (at most 5) busiest of the  *)
(* records of D.                                                           *)
(***************************************************************************)
C15_TopDepartmentScoping ==
    Succeeded =>
        LET gender == InsightOf(Resp.body, "Gender Distribution in ")
            doctors == InsightOf(Resp.body, "Top Doctors in ")
        IN /\ \A d \in KeysOf("department") : VisitsOfDept(d) <= VisitsOfDept(NamedDept)
           /\ NamedDept \in KeysOf("department")
           /\ gender.title = <<"Gender Distribution in ", NamedDept>>
           /\ gender.description
                = <<"Gender breakdown for the busiest department (", NamedDept, ").">>
           /\ doctors.title = <<"Top Doctors in ", NamedDept>>
           /\ doctors.description = <<"Busiest doctors in ", NamedDept, ".">>
           /\ IsTopN(gender.chart_data, "gender", Len(Frame.rows), InNamedDept)
           /\ SumSeq(gender.chart_data.values) = VisitsOfDept(NamedDept)
           /\ IsTopN(doctors.chart_data, "doctor_name", 5, InNamedDept)

\* six doctors in Cardiology and one ENT visit: five doctors kept, and the
\* ENT visit in neither insight
C15_Witness ==
    /\ Succeeded
    /\ Len(Frame.rows) = 7
    /\ NamedDept = "Cardiology"
    /\ VisitsOfDept("ENT") = 1 /\ VisitsOfDept("Cardiology") = 6
    /\ SumSeq(ChartOf("Gender Distribution in ").values) = 6
    /\ ChartOf("Top Doctors in ").values = <<1, 1, 1, 1, 1>>

\* two departments of one visit each: either may be the one named
C15_TieWitness ==
    /\ Succeeded
    /\ Len(Frame.rows) = 2
    /\ Frame.rows[1]["department"] = Some("Cardiology")
    /\ Frame.rows[2]["department"] = Some("ENT")
    /\ NamedDept = "ENT"

(***************************************************************************)
(* Patients per doctor: files of n visits shared in turn by d doctors,     *)
(* the file without any visit among them                                   *)
(***************************************************************************)
RatioFiles ==
    {[exists |-> TRUE, cols |-> HeaderFull,
      rows |-> Tuple([i \in 1..n |->
                  MkRow(HeaderFull, "Practitioner " :> Some(TopDoctors[((i - 1) % d) + 1]))])] :
        n \in 0..MaxRowsRatio, d \in 1..4}

InitRatio == InitWith(RatioFiles)

SpecRatio == InitRatio /\ [][Next]_vars

DoctorsOfFile ==
    {file.rows[i]["Practitioner "][1] : i \in 1..Len(file.rows)}

\* v tenths is num / den to one decimal: the nearest tenth, or one of the
\* two nearest
IsRoundedTenths(v, num, den) ==
    /\ 2 * (10 * num - v * den) <= den
    /\ 2 * (v * den - 10 * num) <= den

AvgPatientsShape(v) ==
    /\ HasInsight(Resp.body, "Average Patients per Doctor")
    /\ ChartOf("Average Patients per Doctor").labels = <<"Avg Patients/Doctor">>
    /\ ChartOf("Average Patients per Doctor").values = <<v>>

(***************************************************************************)
(* C16 (as claimed): Average Patients per Doctor is a one-element chart of *)
(* the record count over the number of distinct doctors, to one decimal;   *)
(* with no doctor at all the insight is still emitted, with value 0.  A    *)
(* table without doctor is a table without record, on which get_insights   *)
(* fails before it reaches this insight (C1).                              *)
(***************************************************************************)
C16_AvgPatientsPerDoctor ==
    (Responded /\ file.exists) =>
        IF DoctorsOfFile = {} THEN AvgPatientsShape(0)
        ELSE \E v \in 0..(10 * Len(file.rows)) :
                /\ AvgPatientsShape(v)
                /\ IsRoundedTenths(v, Len(file.rows), Cardinality(DoctorsOfFile))

\* with a record or more the insight is as claimed; 5 visits of 4 doctors
\* give 1.2 and 7 visits of 4 doctors give 1.8
C16_HoldsWithARecord ==
    (Responded /\ Len(file.rows) > 0) =>
        /\ Succeeded
        /\ \E v \in 0..(10 * Len(file.rows)) :
              /\ AvgPatientsShape(v)
              /\ IsRoundedTenths(v, Len(file.rows), Cardinality(DoctorsOfFile))
        /\ (Len(file.rows) = 5 /\ Cardinality(DoctorsOfFile) = 4) => AvgPatientsShape(12)
        /\ (Len(file.rows) = 7 /\ Cardinality(DoctorsOfFile) = 4) => AvgPatientsShape(18)

IsMonthLabel(l) ==
    /\ Len(l) = 7
    /\ l[5] = "-"
    /\ \A k \in {1, 2, 3, 4, 6, 7} : IsDigit(l[k])
    /\ DigitsValue(SubSeq(l, 6, 7)) \in 1..12

LabelYear(l) == DigitsValue(SubSeq(l, 1, 4))

LabelMonth(l) == DigitsValue(SubSeq(l, 6, 7))

MonthsAscend(ls) ==
    \A k \in 1..(Len(ls) - 1) :
        \/ LabelYear(ls[k]) < LabelYear(ls[k + 1])
        \/ /\ LabelYear(ls[k]) = LabelYear(ls[k + 1])
           /\ LabelMonth(ls[k]) < LabelMonth(ls[k + 1])

InMonth(r, l) ==
    /\ HasVisit(r)
    /\ 2000 + Visit(r)[1].yy = LabelYear(l)
    /\ Visit(r)[1].b = LabelMonth(l)

Paid(r) == DigitsValue(r["Paid Amount"][1])

MonthRevenue(l) ==
    SumSeq(Tuple([i \in 1..Len(file.rows) |->
              IF InMonth(file.rows[i], l) THEN Paid(file.rows[i]) ELSE 0]))

IsHourLabel(l) ==
    /\ Len(l) = 5
    /\ IsDigit(l[1]) /\ IsDigit(l[2])
    /\ DigitsValue(SubSeq(l, 1, 2)) \in 0..23
    /\ SubSeq(l, 3, 5) = <<":", "0", "0">>

LabelHour(l) == DigitsValue(SubSeq(l, 1, 2))

InHour(r, l) == HasVisit(r) /\ Visit(r)[1].hh = LabelHour(l)

MonthlyShape(chart) ==
    /\ \A k \in 1..Len(chart.labels) : IsMonthLabel(chart.labels[k])
    /\ MonthsAscend(chart.labels)
    /\ Len(chart.values) = Len(chart.labels)

(***************************************************************************)
(* C19: whenever a record has a parseable visit_datetime, the labels of    *)
(* Monthly Patient Visits Trend and of Monthly Revenue Trend are months    *)
(* YYYY-MM in strictly ascending order, each value the number (the revenue *)
(* sum) of the records of that month, the monthly counts adding up to the  *)
(* number of records with a parseable visit_datetime; the labels of Peak   *)
(* Visiting Hours are HH:00 in strictly ascending order, each value the    *)
(* number of records of that hour.                                         *)
(***************************************************************************)
C19_CalendarResampling ==
    (Succeeded /\ FileRowCount(HasVisit) > 0) =>
        /\ HasInsight(Resp.body, "Monthly Patient Visits Trend")
        /\ HasInsight(Resp.body, "Monthly Revenue Trend")
        /\ HasInsight(Resp.body, "Peak Visiting Hours")
        /\ LET visits == ChartOf("Monthly Patient Visits Trend")
               revenue == ChartOf("Monthly Revenue Trend")
               hours == ChartOf("Peak Visiting Hours")
           IN /\ MonthlyShape(visits)
              /\ \A k \in 1..Len(visits.labels) :
                    visits.values[k] =
                        FileRowCount(LAMBDA r : InMonth(r, visits.labels[k]))
              /\ SumSeq(visits.values) = FileRowCount(HasVisit)
              /\ MonthlyShape(revenue)
              /\ \A k \in 1..Len(revenue.labels) :
                    revenue.values[k] = MonthRevenue(revenue.labels[k])
              /\ SumSeq(revenue.values) =
                    SumSeq(Tuple([i \in 1..Len(file.rows) |->
                              IF HasVisit(file.rows[i]) THEN Paid(file.rows[i]) ELSE 0]))
              /\ \A k \in 1..Len(hours.labels) : IsHourLabel(hours.labels[k])
              /\ \A k \in 1..(Len(hours.labels) - 1) :
                    LabelHour(hours.labels[k]) < LabelHour(hours.labels[k + 1])
              /\ Len(hours.values) = Len(hours.labels)
              /\ \A k \in 1..Len(hours.labels) :
                    hours.values[k] = FileRowCount(LAMBDA r : InHour(r, hours.labels[k]))
              /\ SumSeq(hours.values) = FileRowCount(HasVisit)

\* a visit of October 2025 and one of January 2026, written in the file in
\* the other order, beside nothing else: four months, two of them empty
C19_Witness ==
    /\ Succeeded
    /\ Len(file.rows) = 2
    /\ Visit(file.rows[1]) = Some(Date(5, 1, 26, 0, 10))
    /\ Visit(file.rows[2]) = Some(Date(15, 10, 25, 17, 0))
    /\ ChartOf("Monthly Patient Visits Trend").labels =
          <<<<"2", "0", "2", "5", "-", "1", "0">>, <<"2", "0", "2", "5", "-", "1", "1">>,
            <<"2", "0", "2", "5", "-", "1", "2">>, <<"2", "0", "2", "6", "-", "0", "1">>>>
    /\ ChartOf("Monthly Patient Visits Trend").values = <<1, 0, 0, 1>>
    /\ ChartOf("Peak Visiting Hours").labels =
          <<<<"0", "0", ":", "0", "0">>, <<"1", "7", ":", "0", "0">>>>

\* a file with an unparseable timestamp beside a parseable one: the record
\* without date is in no month
C19_UndatedWitness ==
    /\ Succeeded
    /\ Len(file.rows) = 2
    /\ FileRowCount(HasVisit) = 1
    /\ ChartOf("Monthly Patient Visits Trend").values = <<1>>

(***************************************************************************)
(* The numeric columns: files with and without 'Paid Amount', 'Base Grand  *)
(* Total' and 'Advance Paid', whose amounts are missing, text, blank,      *)
(* negative, zero or positive                                              *)
(***************************************************************************)
NumericHeaders ==
    {HeaderFull, HeaderFull \ {"Paid Amount"},
     HeaderFull \cup {"Base Grand Total", "Advance Paid"},
     (HeaderFull \ {"Paid Amount"}) \cup {"Base Grand Total"}}

RevenueTokens ==
    {NaN, Some(Chars("abc")), Some(Chars(" ")), Some(Chars("-100")), Some(Chars("0")),
     Some(Chars("500"))}

BaseTotalTokens == {NaN, Some(Chars("abc")), Some(Chars("-100")), Some(Chars("1200"))}

AdvancePaidTokens == {NaN, Some(Chars("250"))}

NumericRows(cols) ==
    {[c \in cols |-> CASE c = "Paid Amount" -> r
                       [] c = "Base Grand Total" -> b
                       [] c = "Advance Paid" -> a
                       [] OTHER -> BaseCell(c)] :
        r \in RevenueTokens, b \in BaseTotalTokens, a \in AdvancePaidTokens}

NumericFiles ==
    UNION {FilesOver(h, NumericRows(h), MaxRowsNumeric) : h \in NumericHeaders}

InitNumeric == InitWith(NumericFiles)

SpecNumeric == InitNumeric /\ [][NextClean]_vars

\* the number a cell of the file stands for, 0 for a cell that stands for none
AmountOf(cell) ==
    CASE cell = Some(Chars("-100")) -> 0 - 100
      [] cell = Some(Chars("0")) -> 0
      [] cell = Some(Chars("250")) -> 250
      [] cell = Some(Chars("500")) -> 500
      [] cell = Some(Chars("1200")) -> 1200
      [] OTHER -> 0

NumericFields ==
    {<<"base_total", "Base Grand Total">>, <<"advance_paid", "Advance Paid">>}

(***************************************************************************)
(* C20: after load_and_clean_data the revenue of every record is a number: *)
(* the number its 'Paid Amount' token stands for, a negative one included, *)
(* and 0 when the token is missing or stands for no number or the file has *)
(* no such column; base_total and advance_paid likewise when the file has  *)
(* their columns.                                                          *)
(***************************************************************************)
C20_RevenueCoercion ==
    df # NaN =>
        /\ Len(Frame.rows) = Len(file.rows)
        /\ "revenue" \in Frame.cols
        /\ \A i \in 1..Len(Frame.rows) :
              /\ Frame.rows[i]["revenue"] = Some(AmountOf(RawCell(i, "Paid Amount")))
              /\ \A f \in NumericFields :
                    FileHasColumn(f[2]) =>
                        /\ f[1] \in Frame.cols
                        /\ Frame.rows[i][f[1]] = Some(AmountOf(RawCell(i, f[2])))

\* a negative amount beside a text in the revenue column, a negative base
\* total beside a missing one
C20_Witness ==
    /\ df # NaN /\ Len(Frame.rows) = 2
    /\ RawCell(1, "Paid Amount") = Some(Chars("-100"))
    /\ RawCell(2, "Paid Amount") = Some(Chars("abc"))
    /\ Frame.rows[1]["revenue"] = Some(0 - 100)
    /\ Frame.rows[2]["revenue"] = Some(0)
    /\ FileHasColumn("Base Grand Total")
    /\ isna(RawCell(1, "Base Grand Total"))
    /\ Frame.rows[1]["base_total"] = Some(0)
    /\ Frame.rows[2]["base_total"] = Some(0 - 100)

\* a file without revenue column: every revenue is 0
C20_AbsentColumnWitness ==
    /\ df # NaN /\ Len(Frame.rows) = 2
    /\ ~FileHasColumn("Paid Amount")
    /\ Frame.rows[1]["revenue"] = Some(0)
    /\ "advance_paid" \notin Frame.cols

(***************************************************************************)
(* The blocks of get_insights one by one, on what load_and_clean_data      *)
(* gives and on what the blocks ahead leave: the DataFrame and the local   *)
(* variable top_dept                                                       *)
(***************************************************************************)
Normalized == load_and_clean_data(file).df[1]

\* the columns that aggregations add to the table
AddedColumns == {"age_group", "rev_group", "day_of_week", "hour"}

\* the blocks that leave something behind: a column, or top_dept
LeavingOrder == <<5, 11, 13, 16, 18>>

LeavingSteps == {LeavingOrder[j] : j \in 1..Len(LeavingOrder)}

\* the start of the try block on the normalized table n
AtStart(n) == [df |-> n, top_dept |-> NaN]

LeftBy(r) == [df |-> r.df, top_dept |-> r.top_dept]

StepOn(k, s) == Step(k, s.df, s.top_dept)

\* what the blocks of ks, run in the order of the catalog from the j-th
\* leaving block on, leave when every other block is skipped
RECURSIVE After(_, _, _)
After(j, ks, s) ==
    IF j > Len(LeavingOrder) THEN s
    ELSE After(j + 1, ks,
               IF LeavingOrder[j] \in ks THEN LeftBy(StepOn(LeavingOrder[j], s)) ELSE s)

\* s with every added column already there, holding nothing
Blanked(s) ==
    [df |-> [cols |-> s.df.cols \cup AddedColumns,
             rows |-> Tuple([i \in 1..Len(s.df.rows) |->
                         [c \in s.df.cols \cup AddedColumns |->
                             IF c \in AddedColumns THEN NaN ELSE s.df.rows[i][c]]])],
     top_dept |-> s.top_dept]

\* t restricted to the columns cols
Restricted(t, cols) ==
    [cols |-> cols,
     rows |-> Tuple([i \in 1..Len(t.rows) |-> [c \in cols |-> t.rows[i][c]]])]

\* what the call returned for block k: its insight, or nothing
Returned(k) == SelectSeq(Resp.body, LAMBDA x : x.title[1] = Catalog[k])

\* block k, whose outcome on s is r, changes no field and no record of the
\* normalized table n, and leaves nothing behind unless it is one of
\* LeavingSteps
KeepsRecords(k, n, s, r) ==
    /\ Restricted(r.df, n.cols) = n
    /\ r.df.cols \ n.cols \subseteq AddedColumns
    /\ k \notin LeavingSteps => LeftBy(r) = s

\* block k gives what the call returned for it
AsReturned(k, r) == r.raised = "" /\ r.out = Returned(k)

\* block k, whose outcome is r on s and rb on s blanked, gives what the call
\* returned for it
Independent(k, n, s, r, rb) ==
    /\ KeepsRecords(k, n, s, r)
    /\ AsReturned(k, r)
    /\ AsReturned(k, rb)

\* the same, but for Top Doctors in the busiest department when Insight 18
\* has not run: it raises
IndependentButTopDept(k, ks, n, s, r, rb) ==
    /\ KeepsRecords(k, n, s, r)
    /\ IF k = 19 /\ 18 \notin ks
       THEN r.raised # "" /\ r.out = <<>> /\ rb.raised # ""
       ELSE AsReturned(k, r) /\ AsReturned(k, rb)

IndependentOn(ks, n, s, sb) ==
    \A k \in 1..Len(Catalog) :
        (\A j \in ks : j < k) => Independent(k, n, s, StepOn(k, s), StepOn(k, sb))

IndependentButTopDeptOn(ks, n, s, sb) ==
    \A k \in 1..Len(Catalog) :
        (\A j \in ks : j < k) =>
            IndependentButTopDept(k, ks, n, s, StepOn(k, s), StepOn(k, sb))

IndependentAfter(ks, n, s) == IndependentOn(ks, n, s, Blanked(s))

IndependentButTopDeptAfter(ks, n, s) == IndependentButTopDeptOn(ks, n, s, Blanked(s))

IndependentFrom(n) ==
    \A ks \in SUBSET LeavingSteps : IndependentAfter(ks, n, After(1, ks, AtStart(n)))

IndependentButTopDeptFrom(n) ==
    \A ks \in SUBSET LeavingSteps :
        IndependentButTopDeptAfter(ks, n, After(1, ks, AtStart(n)))

\* files whose records differ in department, doctor, gender, age, amount and
\* timestamp: dated and undated, paid and unpaid, departments that tie
IndepRows ==
    {MkRow(HeaderFull, "Paid Amount" :> Some(Chars("250"))),
     MkRow(HeaderFull, ("Medical Department" :> Some("ENT"))
                         @@ ("Appointment Date & Time" :> NaN)
                         @@ ("Paid Amount" :> Some(Chars("0")))),
     MkRow(HeaderFull, ("Medical Department" :> Some("ENT"))
                         @@ ("Appointment Date & Time" :> Some(Date(15, 10, 25, 17, 0)))
                         @@ ("Age" :> Some(Chars("6m")))
                         @@ ("Paid Amount" :> Some(Chars("1200")))),
     MkRow(HeaderFull, ("Medical Department" :> NaN)
                         @@ ("Appointment Date & Time" :> Some(Date(31, 2, 25, 10, 0)))
                         @@ ("Paid Amount" :> Some(Chars("abc")))),
     MkRow(HeaderFull, ("Practitioner " :> Some("Dr. Khan"))
                         @@ ("Gender" :> Some("Female"))
                         @@ ("Appointment Date & Time" :> Some(Date(5, 1, 26, 0, 10))))}

IndepFiles == FilesOver(HeaderFull, IndepRows, MaxRowsIndep)

InitIndep == InitWith(IndepFiles)

SpecIndep == InitIndep /\ [][Next]_vars

C21_UndatedWitness ==
    /\ Succeeded
    /\ Len(file.rows) = 2
    /\ FileRowCount(HasVisit) = 0
    /\ Frame.cols = Normalized.cols \cup {"age_group", "rev_group"}
    /\ Len(Resp.body) = 21

====
